---- MODULE Spec2Model ----
(***************************************************************************)
(* Model of the pdf-contract-bridge backend: the upload, generate and      *)
(* deploy routes, the compilation adapter, the deployment router and the    *)
(* persistence collaborator (conversions, extracted_data,                   *)
(* deployed_contracts).  Each handler is a process; one action is the       *)
(* completion of one awaited call followed by the synchronous code up to    *)
(* the next await.                                                          *)
(***************************************************************************)
EXTENDS Integers, Sequences, FiniteSets, TLC

(***************************************************************************)
(* Bounds                                                                   *)
(***************************************************************************)
MaxRequests == 3

Slots == {1, 2}

(***************************************************************************)
(* Text.  Network names are sequences of one-character strings so that      *)
(* toLowerCase / toUpperCase and substring search are computed.             *)
(***************************************************************************)
UpperChars == <<"A","B","C","D","E","F","G","H","I","J","K","L","M",
                "N","O","P","Q","R","S","T","U","V","W","X","Y","Z">>

LowerChars == <<"a","b","c","d","e","f","g","h","i","j","k","l","m",
                "n","o","p","q","r","s","t","u","v","w","x","y","z">>

LowerChar(c) ==
  IF \E i \in 1..26 : UpperChars[i] = c
    THEN LowerChars[CHOOSE i \in 1..26 : UpperChars[i] = c]
    ELSE c

UpperChar(c) ==
  IF \E i \in 1..26 : LowerChars[i] = c
    THEN UpperChars[CHOOSE i \in 1..26 : LowerChars[i] = c]
    ELSE c

ToLowerCase(s) == [i \in 1..Len(s) |-> LowerChar(s[i])]

ToUpperCase(s) == [i \in 1..Len(s) |-> UpperChar(s[i])]

\* String.prototype.includes on character sequences
Includes(s, needle) ==
  \E i \in 0..(Len(s) - Len(needle)) : SubSeq(s, i + 1, i + Len(needle)) = needle

\* Array.prototype.join on an array of strings
RECURSIVE Join(_, _)
Join(arr, sep) ==
  IF Len(arr) = 0 THEN ""
  ELSE IF Len(arr) = 1 THEN arr[1]
  ELSE arr[1] \o sep \o Join(Tail(arr), sep)

ethereum == <<"e","t","h","e","r","e","u","m">>

polygon == <<"p","o","l","y","g","o","n">>

ETHEREUM == <<"E","T","H","E","R","E","U","M">>

POLYGON == <<"P","O","L","Y","G","O","N">>

SOLANA == <<"S","O","L","A","N","A">>

Ethereum == <<"E","t","h","e","r","e","u","m">>

PoLyGoN == <<"P","o","L","y","G","o","N">>

solana == <<"s","o","l","a","n","a">>

\* enum "BlockchainNetwork"
BlockchainNetwork == {ETHEREUM, POLYGON, SOLANA}

\* enum "ConversionStatus"
ConversionStatus ==
  {"UPLOADING", "PARSING", "EXTRACTING", "GENERATING", "DEPLOYING", "COMPLETED", "FAILED"}

\* enum "ProcessingStep"
ProcessingStep ==
  {"UPLOAD", "PARSE_PDF", "EXTRACT_DATA", "GENERATE_CONTRACT", "DEPLOY", "COMPLETED"}

(***************************************************************************)
(* Artifact text: a sequence of lexical pieces.  The pieces the             *)
(* compilation adapter searches for are "pragma solidity" and "contract ";  *)
(* " " is whitespace.                                                       *)
(***************************************************************************)
\* a trim that removes nothing
TrimKeepingBlanks(code) == code

Trim(code) ==
  LET NonWs == {i \in 1..Len(code) : code[i] # " "}
  IN IF NonWs = {} THEN <<>>
     ELSE SubSeq(code, CHOOSE i \in NonWs : \A j \in NonWs : i <= j,
                       CHOOSE i \in NonWs : \A j \in NonWs : j <= i)

CodeIncludes(code, piece) == \E i \in 1..Len(code) : code[i] = piece

EmptyCode == <<>>

BlankCode == <<" ">>

NoPragmaCode == <<"contract ", "C {}">>

NoContractCode == <<"pragma solidity", " ", "uint x;">>

ValidCode == <<"pragma solidity", " ", "contract ", "C {}">>

(***************************************************************************)
(* What solc.compile returns for a text (the external compiler).            *)
(***************************************************************************)
SolcClean ==
  [errors |-> <<>>, hasContracts |-> TRUE, names |-> <<"C">>,
   abi |-> TRUE, evm |-> TRUE, object |-> "6080"]

SolcWarning ==
  [errors |-> <<[severity |-> "warning", message |-> "Unused variable"]>>,
   hasContracts |-> TRUE, names |-> <<"C">>,
   abi |-> TRUE, evm |-> TRUE, object |-> "6080"]

SolcError ==
  [errors |-> <<[severity |-> "warning", message |-> "Unused variable"],
                [severity |-> "error", message |-> "ParserError"]>>,
   hasContracts |-> TRUE, names |-> <<>>,
   abi |-> FALSE, evm |-> FALSE, object |-> ""]

SolcNothing ==
  [errors |-> <<>>, hasContracts |-> TRUE, names |-> <<>>,
   abi |-> FALSE, evm |-> FALSE, object |-> ""]

SolcOutputs == {SolcClean, SolcWarning, SolcError, SolcNothing}

\* a filter that lets every diagnostic through
FilterSeverityAny(errs, sev) == [i \in 1..Len(errs) |-> errs[i].message]

RECURSIVE FilterSeverity(_, _)
FilterSeverity(errs, sev) ==
  IF errs = <<>> THEN <<>>
  ELSE IF Head(errs).severity = sev
    THEN <<Head(errs).message>> \o FilterSeverity(Tail(errs), sev)
    ELSE FilterSeverity(Tail(errs), sev)

CompileFailed(msg, warns, ran) ==
  [success |-> FALSE, error |-> msg, warnings |-> warns, abi |-> FALSE,
   bytecode |-> "", contractName |-> "", compilerInvoked |-> ran]

\* compileSolidityContract(solidityCode); out is what solc yields for the text
compileSolidityContract(code, out) ==
  IF Len(code) = 0 \/ Len(Trim(code)) = 0
    THEN CompileFailed("Empty Solidity code provided", <<>>, FALSE)
  ELSE IF ~CodeIncludes(code, "pragma solidity")
    THEN CompileFailed("Missing pragma solidity declaration", <<>>, FALSE)
  ELSE IF ~CodeIncludes(code, "contract ")
    THEN CompileFailed("Missing contract declaration", <<>>, FALSE)
  ELSE IF Len(FilterSeverity(out.errors, "error")) > 0
    THEN CompileFailed("Compilation failed: "
                         \o Join(FilterSeverity(out.errors, "error"), "; "),
                       FilterSeverity(out.errors, "warning"), TRUE)
  ELSE IF ~out.hasContracts
    THEN CompileFailed("Cannot read properties of undefined", <<>>, TRUE)
  ELSE IF Len(out.names) = 0
    THEN CompileFailed("No contracts found in compilation output", <<>>, TRUE)
  ELSE IF ~out.abi \/ ~out.evm
    THEN CompileFailed("Missing ABI or bytecode in compilation output", <<>>, TRUE)
  ELSE [success |-> TRUE, error |-> "", warnings |-> <<>>, abi |-> TRUE,
        bytecode |-> out.object, contractName |-> out.names[1],
        compilerInvoked |-> TRUE]

NoValidation == CompileFailed("", <<>>, FALSE)

(***************************************************************************)
(* Deployment strategies.  cfg is process.env, net is what the network      *)
(* does with the submission, n numbers the address the network assigns.     *)
(* An error message is a sequence of text pieces.                           *)
(***************************************************************************)
NetOutcomes == {"ok", "submitThrows", "waitThrows", "noReceipt"}

\* with the outcomes in which the wallet or the contract factory cannot be built
StrategyOutcomes == NetOutcomes \cup {"connectThrows", "factoryThrows"}

Configs ==
  {[polygonRpc |-> TRUE, ethereumRpc |-> TRUE, privateKey |-> TRUE],
   [polygonRpc |-> FALSE, ethereumRpc |-> TRUE, privateKey |-> TRUE],
   [polygonRpc |-> TRUE, ethereumRpc |-> FALSE, privateKey |-> TRUE],
   [polygonRpc |-> TRUE, ethereumRpc |-> TRUE, privateKey |-> FALSE]}

DeployFailed(msg, ran, strat, sent) ==
  [success |-> FALSE, contractAddress |-> "", transactionHash |-> "",
   network |-> <<>>, error |-> msg, stages |-> ran, strategies |-> strat,
   submitted |-> sent]

NoDeployment == DeployFailed(<<>>, <<>>, {}, FALSE)

\* a strategy that does not look at its configuration before submitting
deployToPolygonMumbaiUngated(code, out, cfg, net, n) ==
  LET compilation == compileSolidityContract(code, out)
      strat == {"polygon"}
  IN IF ~compilation.success
       THEN DeployFailed(<<"Compilation failed: ", compilation.error>>,
                         <<"Compile">>, strat, FALSE)
     ELSE IF net = "connectThrows"
       THEN DeployFailed(<<"invalid private key">>,
                         <<"Compile", "Connect">>, strat, FALSE)
     ELSE IF net = "factoryThrows"
       THEN DeployFailed(<<"invalid bytecode">>,
                         <<"Compile", "Connect", "BuildFactory">>, strat, FALSE)
     ELSE IF net = "submitThrows"
       THEN DeployFailed(<<"insufficient funds">>,
                         <<"Compile", "Connect", "BuildFactory", "Submit">>,
                         strat, FALSE)
     ELSE IF net = "waitThrows"
       THEN DeployFailed(<<"transaction failed">>,
                         <<"Compile", "Connect", "BuildFactory", "Submit", "Confirm">>,
                         strat, TRUE)
     ELSE [success |-> TRUE,
           contractAddress |-> "0xC" \o ToString(n),
           transactionHash |-> IF net = "noReceipt" THEN "" ELSE "0xT" \o ToString(n),
           network |-> POLYGON, error |-> <<>>,
           stages |-> <<"Compile", "Connect", "BuildFactory", "Submit", "Confirm">>,
           strategies |-> strat, submitted |-> TRUE]

\* deployToPolygonMumbai(solidityCode, constructorArgs)
deployToPolygonMumbai(code, out, cfg, net, n) ==
  LET compilation == compileSolidityContract(code, out)
      strat == {"polygon"}
  IN IF ~compilation.success
       THEN DeployFailed(<<"Compilation failed: ", compilation.error>>,
                         <<"Compile">>, strat, FALSE)
     ELSE IF ~cfg.polygonRpc
       THEN DeployFailed(<<"Missing POLYGON_MUMBAI_RPC_URL in environment variables">>,
                         <<"Compile", "Connect">>, strat, FALSE)
     ELSE IF ~cfg.privateKey
       THEN DeployFailed(<<"Missing DEPLOYER_PRIVATE_KEY in environment variables">>,
                         <<"Compile", "Connect">>, strat, FALSE)
     ELSE IF net = "connectThrows"
       THEN DeployFailed(<<"invalid private key">>,
                         <<"Compile", "Connect">>, strat, FALSE)
     ELSE IF net = "factoryThrows"
       THEN DeployFailed(<<"invalid bytecode">>,
                         <<"Compile", "Connect", "BuildFactory">>, strat, FALSE)
     ELSE IF net = "submitThrows"
       THEN DeployFailed(<<"insufficient funds">>,
                         <<"Compile", "Connect", "BuildFactory", "Submit">>,
                         strat, FALSE)
     ELSE IF net = "waitThrows"
       THEN DeployFailed(<<"transaction failed">>,
                         <<"Compile", "Connect", "BuildFactory", "Submit", "Confirm">>,
                         strat, TRUE)
     ELSE [success |-> TRUE,
           contractAddress |-> "0xC" \o ToString(n),
           transactionHash |-> IF net = "noReceipt" THEN "" ELSE "0xT" \o ToString(n),
           network |-> POLYGON, error |-> <<>>,
           stages |-> <<"Compile", "Connect", "BuildFactory", "Submit", "Confirm">>,
           strategies |-> strat, submitted |-> TRUE]

\* deployToEthereumSepolia(solidityCode, constructorArgs)
deployToEthereumSepolia(code, out, cfg, net, n) ==
  LET compilation == compileSolidityContract(code, out)
      strat == {"ethereum"}
  IN IF ~compilation.success
       THEN DeployFailed(<<"Compilation failed: ", compilation.error>>,
                         <<"Compile">>, strat, FALSE)
     ELSE IF ~cfg.ethereumRpc
       THEN DeployFailed(<<"Missing ETHEREUM_SEPOLIA_RPC_URL in environment variables">>,
                         <<"Compile", "Connect">>, strat, FALSE)
     ELSE IF ~cfg.privateKey
       THEN DeployFailed(<<"Missing DEPLOYER_PRIVATE_KEY in environment variables">>,
                         <<"Compile", "Connect">>, strat, FALSE)
     ELSE IF net = "connectThrows"
       THEN DeployFailed(<<"invalid private key">>,
                         <<"Compile", "Connect">>, strat, FALSE)
     ELSE IF net = "factoryThrows"
       THEN DeployFailed(<<"invalid bytecode">>,
                         <<"Compile", "Connect", "BuildFactory">>, strat, FALSE)
     ELSE IF net = "submitThrows"
       THEN DeployFailed(<<"insufficient funds">>,
                         <<"Compile", "Connect", "BuildFactory", "Submit">>,
                         strat, FALSE)
     ELSE IF net = "waitThrows"
       THEN DeployFailed(<<"transaction failed">>,
                         <<"Compile", "Connect", "BuildFactory", "Submit", "Confirm">>,
                         strat, TRUE)
     ELSE [success |-> TRUE,
           contractAddress |-> "0xC" \o ToString(n),
           transactionHash |-> IF net = "noReceipt" THEN "" ELSE "0xT" \o ToString(n),
           network |-> ETHEREUM, error |-> <<>>,
           stages |-> <<"Compile", "Connect", "BuildFactory", "Submit", "Confirm">>,
           strategies |-> strat, submitted |-> TRUE]

\* the default branch of the switch: `Unknown blockchain: ${blockchain}. Use ...`
UnknownBlockchain(blockchain) ==
  DeployFailed(<<"Unknown blockchain: ">> \o blockchain
                 \o <<". Use 'ethereum' or 'polygon'">>, <<>>, {}, FALSE)

\* a router that falls back to a default network for an unrecognised name
deployContractToBlockchainDefaulting(code, blockchain, out, cfg, net, n) ==
  IF ToLowerCase(blockchain) = ethereum
    THEN deployToEthereumSepolia(code, out, cfg, net, n)
    ELSE deployToPolygonMumbai(code, out, cfg, net, n)

\* deployContractToBlockchain(solidityCode, blockchain, constructorArgs)
deployContractToBlockchain(code, blockchain, out, cfg, net, n) ==
  IF ToLowerCase(blockchain) = ethereum
    THEN deployToEthereumSepolia(code, out, cfg, net, n)
  ELSE IF ToLowerCase(blockchain) = polygon
    THEN deployToPolygonMumbai(code, out, cfg, net, n)
  ELSE UnknownBlockchain(blockchain)

\* getBlockExplorerUrl(blockchain, contractAddress)
getBlockExplorerUrl(blockchain, contractAddress) ==
  IF blockchain = POLYGON
    THEN "https://mumbai.polygonscan.com/address/" \o contractAddress
  ELSE IF blockchain = ETHEREUM
    THEN "https://sepolia.etherscan.io/address/" \o contractAddress
  ELSE ""

\* deployContract(solidityCode, blockchain): the mock used by the upload route
deployContract(code, blockchain) ==
  [address |-> "0xM0CK", transactionHash |-> "0xM0CKHASH"]

(***************************************************************************)
(* Contract terms as the extractor returns them, and the code generator.    *)
(***************************************************************************)
NoData == [type |-> "", parties |-> <<>>, hasTerms |-> FALSE, payment |-> ""]

ExtractionResults ==
  {[type |-> "Service Agreement", parties |-> <<"Alice", "Bob">>,
    hasTerms |-> TRUE, payment |-> "$2,000 USDC"],
   [type |-> "NDA", parties |-> <<"Acme Corp">>, hasTerms |-> TRUE, payment |-> ""]}

\* request bodies of POST /api/generate
GenerateBodies ==
  ExtractionResults \cup
  {NoData,
   [type |-> "NDA", parties |-> <<>>, hasTerms |-> TRUE, payment |-> ""],
   [type |-> "NDA", parties |-> <<"Acme Corp">>, hasTerms |-> FALSE, payment |-> ""]}

\* generateSolidityContract throws a TypeError when contractData.terms is undefined
GenerateThrows(contractData) == ~contractData.hasTerms

\* generateSolidityContract(contractData): the rendered template
generateSolidityContract(contractData) ==
  <<"pragma solidity", " ", "contract ", contractData.type, " {",
    Join(contractData.parties, ", "), "}">>

(***************************************************************************)
(* State                                                                    *)
(***************************************************************************)
VARIABLES
  conversions,        \* table "conversions"
  extractedData,      \* table "extracted_data"
  deployedContracts,  \* table "deployed_contracts"
  chain,              \* number of contract-creation transactions submitted
  req,                \* the request each handler instance is serving
  issued,             \* number of requests received so far
  config,             \* process.env
  returned,           \* the request whose response is being sent in this step
  routerCall,         \* last direct call of deployContractToBlockchain
  call                \* last direct call of a library function

vars == <<conversions, extractedData, deployedContracts, chain, req,
          issued, config, returned, routerCall, call>>

db == <<conversions, extractedData, deployedContracts>>

NoRequest ==
  [kind |-> "none", pc |-> "idle", hasFile |-> FALSE, deploy |-> FALSE,
   blockchain |-> <<>>, contractData |-> NoData, solidityCode |-> <<>>,
   solc |-> SolcClean, conversionId |-> 0, conversion |-> 0,
   deploymentAddress |-> "", deploymentTx |-> "",
   validation |-> NoValidation, deploymentResult |-> NoDeployment,
   stages |-> <<>>, failedStage |-> "none",
   unlinkAttempts |-> 0, unlinkDone |-> 0, response |-> 0, error |-> <<>>,
   explorerUrl |-> "", fileOnDisk |-> FALSE]

NoCall ==
  [called |-> FALSE, solidityCode |-> <<>>, blockchain |-> <<>>, solc |-> SolcClean,
   cfg |-> [polygonRpc |-> TRUE, ethereumRpc |-> TRUE, privateKey |-> TRUE],
   net |-> "ok", result |-> NoDeployment]

\* no library function has been called directly
NoLibCall == [fn |-> "none"]

\* the server runs with its endpoints and signing key configured
FullConfig == [polygonRpc |-> TRUE, ethereumRpc |-> TRUE, privateKey |-> TRUE]

Init ==
  /\ conversions = {}
  /\ extractedData = {}
  /\ deployedContracts = {}
  /\ chain = 0
  /\ req = [s \in Slots |-> NoRequest]
  /\ issued = 0
  /\ config = FullConfig
  /\ returned = NoRequest
  /\ routerCall = NoCall
  /\ call = NoLibCall

(***************************************************************************)
(* Persistence collaborator (Prisma over the migration's schema)            *)
(***************************************************************************)
ConversionIds == {c.id : c \in conversions}

Conversion(id) == CHOOSE c \in conversions : c.id = id

\* conversions_pkey: a fresh identity
NewConversionId == Cardinality(conversions) + 1

\* prisma.conversion.update({where: {id}, data}): throws when no row has the id
ConversionUpdateRejected(id) == id \notin ConversionIds

UpdateStatusStep(id, status, step) ==
  {IF c.id = id THEN [c EXCEPT !.status = status, !.processingStep = step] ELSE c
     : c \in conversions}

UpdateStep(id, step) ==
  {IF c.id = id THEN [c EXCEPT !.processingStep = step] ELSE c : c \in conversions}

\* a deployed_contracts table without the unique index on conversionId
DeployedContractCreateRejectedNoIndex(conversionId, blockchain) ==
  \/ conversionId \notin ConversionIds
  \/ blockchain \notin BlockchainNetwork

\* prisma.deployedContract.create: deployed_contracts_conversionId_fkey,
\* deployed_contracts_conversionId_key and the BlockchainNetwork enum
DeployedContractCreateRejected(conversionId, blockchain) ==
  \/ conversionId \notin ConversionIds
  \/ \E d \in deployedContracts : d.conversionId = conversionId
  \/ blockchain \notin BlockchainNetwork

DeployedContractRow(conversionId, address, blockchain, tx) ==
  [id |-> Cardinality(deployedContracts) + 1, conversionId |-> conversionId,
   contractAddress |-> address, blockchain |-> blockchain, transactionHash |-> tx]

\* a row whose parties are joined without the space after the comma
ExtractedDataRowUnspaced(conversionId, contractData) ==
  [id |-> Cardinality(extractedData) + 1, conversionId |-> conversionId,
   parties |-> Join(contractData.parties, ","),
   contractType |-> contractData.type, paymentAmount |-> contractData.payment]

\* extractedData: { create: { parties, contractType, paymentAmount, ... } }
ExtractedDataRow(conversionId, contractData) ==
  [id |-> Cardinality(extractedData) + 1, conversionId |-> conversionId,
   parties |-> Join(contractData.parties, ", "),
   contractType |-> contractData.type, paymentAmount |-> contractData.payment]

ConversionRow(id, contractData, status, step) ==
  [id |-> id, contractType |-> contractData.type, status |-> status,
   processingStep |-> step, errorMessage |-> ""]

(***************************************************************************)
(* Helpers shared by the handlers                                           *)
(***************************************************************************)
\* Steps that read and write nothing but the request's own locals and its own
\* temporary file commute with every step of another request, so they are
\* scheduled first: requests interleave at their persistence and network steps.
LocalPcs ==
  {"parsePdfFile", "extractContractData", "generateSolidityContract",
   "deployContract", "compileSolidityContract"}

Turn(s) ==
  \/ req[s].pc \in LocalPcs
  \/ \A t \in Slots \ {s} : req[t].pc \notin LocalPcs

\* a handler instance is free; instances are interchangeable, so a new request
\* is served by the first free one
Ready(s) ==
  /\ req[s].pc = "idle"
  /\ \A t \in Slots : t < s => req[t].pc # "idle"
  /\ issued < MaxRequests
  /\ Turn(s)

\* keep serving the request, or send its response and free the instance
Put(s, r) ==
  IF r.pc = "done"
    THEN req' = [req EXCEPT ![s] = NoRequest] /\ returned' = r
    ELSE req' = [req EXCEPT ![s] = r] /\ returned' = NoRequest

NewRequest(kind) == [NoRequest EXCEPT !.kind = kind]

Respond(r, code, msg) == [r EXCEPT !.pc = "done", !.response = code, !.error = msg]

Ran(r, stage) == [r EXCEPT !.stages = Append(@, stage)]

Failed(r, stage) ==
  [r EXCEPT !.stages = Append(@, stage), !.failedStage = stage]

\* conversion identities a client may send: none, an existing one, an unknown one
ClientConversionIds == {0} \cup ConversionIds \cup {NewConversionId}

\* the catch block of the upload handlers: unlink inside try/catch, then 500
UploadCatch(r, removed, msg) ==
  Respond([r EXCEPT !.unlinkAttempts = @ + 1,
                    !.unlinkDone = @ + (IF removed THEN 1 ELSE 0),
                    !.fileOnDisk = ~removed], 500, msg)

\* a throw inside the try block of an upload handler
UploadThrow(s, r, msg) ==
  \E removed \in BOOLEAN : Put(s, UploadCatch(r, removed, msg))

\* fs.unlinkSync(filePath) after processing, then the 200 response; a throw of
\* unlinkSync lands in the catch block
UploadCleanupAndRespond(s, r) ==
  \/ Put(s, Respond([r EXCEPT !.unlinkAttempts = @ + 1, !.unlinkDone = @ + 1,
                               !.fileOnDisk = FALSE], 200, <<>>))
  \/ UploadThrow(s, [r EXCEPT !.unlinkAttempts = @ + 1, !.failedStage = "cleanup"],
                 <<"EPERM: operation not permitted, unlink">>)

(***************************************************************************)
(* POST /api/upload (routes/upload.ts): parse, extract, generate, optional  *)
(* mock deployment, persist                                                 *)
(***************************************************************************)
\* values of the multipart field "blockchain"
UploadNetworks == {ETHEREUM, polygon}

UploadNoFile(s) ==
  /\ Ready(s)
  /\ Put(s, Respond(NewRequest("upload"), 400, <<"No file uploaded">>))
  /\ issued' = issued + 1
  /\ UNCHANGED <<db, chain, config, routerCall, call>>

UploadStart(s) ==
  /\ Ready(s)
  /\ \E deploy \in BOOLEAN, blockchain \in UploadNetworks :
       Put(s,
                 [NewRequest("upload") EXCEPT !.hasFile = TRUE, !.fileOnDisk = TRUE, !.deploy = deploy,
                    !.blockchain = IF deploy THEN blockchain ELSE ETHEREUM,
                    !.pc = "parsePdfFile"])
  /\ issued' = issued + 1
  /\ UNCHANGED <<db, chain, config, routerCall, call>>

UploadParsePdf(s) ==
  LET r == req[s] IN
  /\ r.kind = "upload" /\ r.pc = "parsePdfFile"
  /\ \/ /\ Put(s, [Ran(r, "parse") EXCEPT !.pc = "extractContractData"])
     \/ UploadThrow(s, Failed(r, "parse"), <<"Failed to parse PDF: ", "bad XRef entry">>)
  /\ UNCHANGED <<db, chain, issued, config, routerCall, call>>

UploadExtract(s) ==
  LET r == req[s] IN
  /\ r.kind = "upload" /\ r.pc = "extractContractData"
  /\ \E cd \in ExtractionResults :
       Put(s,
                 [Ran(r, "extract") EXCEPT !.contractData = cd,
                                           !.pc = "generateSolidityContract"])
  /\ UNCHANGED <<db, chain, issued, config, routerCall, call>>

UploadGenerate(s) ==
  LET r == req[s] IN
  /\ r.kind = "upload" /\ r.pc = "generateSolidityContract"
  /\ IF GenerateThrows(r.contractData)
       THEN UploadThrow(s, Failed(r, "generate"),
                        <<"Cannot read properties of undefined">>)
       ELSE /\ Put(s,
                         [Ran(r, "generate") EXCEPT
                            !.solidityCode = generateSolidityContract(r.contractData),
                            !.pc = IF r.deploy THEN "deployContract"
                                               ELSE "conversion.create"])
  /\ UNCHANGED <<db, chain, issued, config, routerCall, call>>

UploadDeployContract(s) ==
  LET r == req[s]
      deploymentResult == deployContract(r.solidityCode, ToLowerCase(r.blockchain))
  IN
  /\ r.kind = "upload" /\ r.pc = "deployContract"
  /\ Put(s,
               [Ran(r, "deploy") EXCEPT
                  !.deploymentAddress = deploymentResult.address,
                  !.deploymentTx = deploymentResult.transactionHash,
                  !.pc = "conversion.create"])
  /\ UNCHANGED <<db, chain, issued, config, routerCall, call>>

UploadCreateConversion(s) ==
  LET r == req[s]
      id == NewConversionId
  IN
  /\ r.kind = "upload" /\ r.pc = "conversion.create" /\ Turn(s)
  /\ \/ /\ conversions' = conversions \cup
             {ConversionRow(id, r.contractData, "GENERATING", "GENERATE_CONTRACT")}
        /\ extractedData' = extractedData \cup {ExtractedDataRow(id, r.contractData)}
        /\ Put(s,
                     [r EXCEPT !.conversion = id,
                        !.pc = IF r.deploy /\ r.deploymentAddress # ""
                                  /\ r.deploymentTx # ""
                                 THEN "deployedContract.create"
                                 ELSE "conversion.update"])
     \/ /\ UploadThrow(s, Failed(r, "persist"), <<"Can't reach database server">>)
        /\ UNCHANGED <<conversions, extractedData>>
  /\ UNCHANGED <<deployedContracts, chain, issued, config, routerCall, call>>

UploadCreateDeployedContract(s) ==
  LET r == req[s] IN
  /\ r.kind = "upload" /\ r.pc = "deployedContract.create" /\ Turn(s)
  /\ \/ /\ ~DeployedContractCreateRejected(r.conversion, r.blockchain)
        /\ deployedContracts' = deployedContracts \cup
             {DeployedContractRow(r.conversion, r.deploymentAddress, r.blockchain,
                                  r.deploymentTx)}
        /\ Put(s, [r EXCEPT !.pc = "conversion.update"])
     \/ /\ DeployedContractCreateRejected(r.conversion, r.blockchain)
        /\ UploadThrow(s, Failed(r, "persist"), <<"Invalid prisma.deployedContract.create() invocation">>)
        /\ UNCHANGED deployedContracts
     \/ /\ UploadThrow(s, Failed(r, "persist"), <<"Can't reach database server">>)
        /\ UNCHANGED deployedContracts
  /\ UNCHANGED <<conversions, extractedData, chain, issued, config, routerCall, call>>

UploadUpdateConversion(s) ==
  LET r == req[s] IN
  /\ r.kind = "upload" /\ r.pc = "conversion.update" /\ Turn(s)
  /\ \/ /\ ~ConversionUpdateRejected(r.conversion)
        /\ conversions' = UpdateStatusStep(r.conversion, "COMPLETED", "COMPLETED")
        /\ UploadCleanupAndRespond(s, Ran(r, "persist"))
     \/ /\ UploadThrow(s, Failed(r, "persist"), <<"Can't reach database server">>)
        /\ UNCHANGED conversions
  /\ UNCHANGED <<extractedData, deployedContracts, chain, issued, config, routerCall, call>>

(***************************************************************************)
(* POST /api/upload, extraction-only variant: parse, extract, persist       *)
(***************************************************************************)
ExtractStart(s) ==
  /\ Ready(s)
  /\ Put(s,
               [NewRequest("extract") EXCEPT !.hasFile = TRUE, !.fileOnDisk = TRUE, !.pc = "parsePdfFile"])
  /\ issued' = issued + 1
  /\ UNCHANGED <<db, chain, config, routerCall, call>>

ExtractParsePdf(s) ==
  LET r == req[s] IN
  /\ r.kind = "extract" /\ r.pc = "parsePdfFile"
  /\ \/ /\ Put(s, [Ran(r, "parse") EXCEPT !.pc = "extractContractData"])
     \/ UploadThrow(s, Failed(r, "parse"), <<"Failed to parse PDF: ", "bad XRef entry">>)
  /\ UNCHANGED <<db, chain, issued, config, routerCall, call>>

ExtractExtract(s) ==
  LET r == req[s] IN
  /\ r.kind = "extract" /\ r.pc = "extractContractData"
  /\ \E cd \in ExtractionResults :
       Put(s,
                 [Ran(r, "extract") EXCEPT !.contractData = cd,
                                           !.pc = "conversion.create"])
  /\ UNCHANGED <<db, chain, issued, config, routerCall, call>>

ExtractCreateConversion(s) ==
  LET r == req[s]
      id == NewConversionId
  IN
  /\ r.kind = "extract" /\ r.pc = "conversion.create" /\ Turn(s)
  /\ \/ /\ conversions' = conversions \cup
             {ConversionRow(id, r.contractData, "COMPLETED", "COMPLETED")}
        /\ extractedData' = extractedData \cup {ExtractedDataRow(id, r.contractData)}
        /\ UploadCleanupAndRespond(s, [Ran(r, "persist") EXCEPT !.conversion = id])
     \/ /\ UploadThrow(s, Failed(r, "persist"), <<"Can't reach database server">>)
        /\ UNCHANGED <<conversions, extractedData>>
  /\ UNCHANGED <<deployedContracts, chain, issued, config, routerCall, call>>

(***************************************************************************)
(* POST /api/deploy: validate, compile, deploy, record                      *)
(***************************************************************************)
\* request bodies: the artifact text with what solc yields for it
DeployBodies ==
  {<<EmptyCode, SolcClean>>, <<NoContractCode, SolcClean>>,
   <<ValidCode, SolcClean>>, <<ValidCode, SolcError>>}

DeployNetworks == {ethereum, polygon, SOLANA}

DeployStart(s) ==
  /\ Ready(s)
  /\ \E body \in DeployBodies, blockchain \in DeployNetworks,
        conversionId \in ClientConversionIds :
       LET r == [NewRequest("deploy") EXCEPT
                   !.solidityCode = body[1], !.solc = body[2],
                   !.blockchain = blockchain, !.conversionId = conversionId]
       IN Put(s,
            IF Len(r.solidityCode) = 0
              THEN Respond(r, 400, <<"solidityCode is required">>)
            ELSE IF Len(r.blockchain) = 0 \/ r.blockchain \notin {ethereum, polygon}
              THEN Respond(r, 400, <<"blockchain must be 'ethereum' or 'polygon'">>)
            ELSE [r EXCEPT !.pc = "compileSolidityContract"])
  /\ issued' = issued + 1
  /\ UNCHANGED <<db, chain, config, routerCall, call>>

DeployCompile(s) ==
  LET r == req[s]
      validation == compileSolidityContract(r.solidityCode, r.solc)
  IN
  /\ r.kind = "deploy" /\ r.pc = "compileSolidityContract"
  /\ Put(s,
       IF ~validation.success
         THEN Respond([Failed(r, "compile") EXCEPT !.validation = validation], 400,
                      <<"Contract compilation failed", validation.error>>)
         ELSE [Ran(r, "compile") EXCEPT !.validation = validation,
                                        !.pc = "deployContractToBlockchain"])
  /\ UNCHANGED <<db, chain, issued, config, routerCall, call>>

\* a handler that reports a deployment without a conversion as a success
AfterDeploymentAccepting(r, deploymentResult) ==
  IF r.conversionId # 0
    THEN [r EXCEPT !.deploymentResult = deploymentResult,
                   !.pc = "deployedContract.create"]
    ELSE Respond([r EXCEPT !.deploymentResult = deploymentResult], 200, <<>>)

\* what follows a successful deployment: record it, or reject the request
AfterDeployment(r, deploymentResult) ==
  IF r.conversionId # 0
    THEN [r EXCEPT !.deploymentResult = deploymentResult,
                   !.pc = "deployedContract.create"]
    ELSE Respond([r EXCEPT !.deploymentResult = deploymentResult], 400,
                 <<"conversionId is required to save deployment record">>)

DeployToBlockchain(s) ==
  LET r == req[s] IN
  /\ r.kind = "deploy" /\ r.pc = "deployContractToBlockchain" /\ Turn(s)
  /\ \E net \in NetOutcomes :
       LET deploymentResult ==
             deployContractToBlockchain(r.solidityCode, r.blockchain, r.solc,
                                        config, net, chain + 1)
       IN /\ chain' = IF deploymentResult.submitted THEN chain + 1 ELSE chain
          /\ Put(s,
               IF ~deploymentResult.success
                 THEN Respond([Failed(r, "deploy") EXCEPT
                                 !.deploymentResult = deploymentResult], 500,
                              <<"Deployment failed">> \o deploymentResult.error)
                 ELSE AfterDeployment(Ran(r, "deploy"), deploymentResult))
  /\ UNCHANGED <<db, issued, config, routerCall, call>>

\* deploymentResult.network?.toUpperCase() || "POLYGON"
RecordedNetwork(deploymentResult) ==
  IF Len(deploymentResult.network) = 0 THEN POLYGON
  ELSE ToUpperCase(deploymentResult.network)

DeployCreateRecord(s) ==
  LET r == req[s]
      blockchain == RecordedNetwork(r.deploymentResult)
  IN
  /\ r.kind = "deploy" /\ r.pc = "deployedContract.create" /\ Turn(s)
  /\ \/ /\ ~DeployedContractCreateRejected(r.conversionId, blockchain)
        /\ deployedContracts' = deployedContracts \cup
             {DeployedContractRow(r.conversionId, r.deploymentResult.contractAddress,
                                  blockchain, r.deploymentResult.transactionHash)}
        /\ Put(s, [r EXCEPT !.pc = "conversion.update"])
     \/ /\ DeployedContractCreateRejected(r.conversionId, blockchain)
        /\ deployedContracts' = deployedContracts
        /\ Put(s,
                     Respond(Failed(r, "persist"), 500,
                             <<"Failed to deploy contract",
                               "Invalid prisma.deployedContract.create() invocation">>))
     \/ /\ deployedContracts' = deployedContracts
        /\ Put(s,
                     Respond(Failed(r, "persist"), 500,
                             <<"Failed to deploy contract", "Can't reach database server">>))
  /\ UNCHANGED <<conversions, extractedData, chain, issued, config, routerCall, call>>

DeployUpdateConversion(s) ==
  LET r == req[s] IN
  /\ r.kind = "deploy" /\ r.pc = "conversion.update" /\ Turn(s)
  /\ \/ /\ ~ConversionUpdateRejected(r.conversionId)
        /\ conversions' = UpdateStatusStep(r.conversionId, "DEPLOYING", "DEPLOY")
        /\ Put(s,
                     Respond([Ran(r, "persist") EXCEPT
                                !.explorerUrl =
                                  getBlockExplorerUrl(r.deploymentResult.network,
                                                      r.deploymentResult.contractAddress)],
                             200, <<>>))
     \/ /\ conversions' = conversions
        /\ Put(s,
                     Respond(Failed(r, "persist"), 500,
                             <<"Failed to deploy contract", "Can't reach database server">>))
  /\ UNCHANGED <<extractedData, deployedContracts, chain, issued, config,
                 routerCall, call>>

(***************************************************************************)
(* GET /api/deploy/status/:conversionId                                     *)
(***************************************************************************)
StatusStart(s) ==
  /\ Ready(s)
  /\ \E conversionId \in ConversionIds \cup {NewConversionId} :
       Put(s,
                 [NewRequest("status") EXCEPT !.conversionId = conversionId,
                                              !.pc = "deployedContract.findFirst"])
  /\ issued' = issued + 1
  /\ UNCHANGED <<db, chain, config, routerCall, call>>

\* a lookup that also advances the conversion it reads
StatusFindTouching(s) ==
  LET r == req[s] IN
  /\ r.kind = "status" /\ r.pc = "deployedContract.findFirst" /\ Turn(s)
  /\ Put(s, Respond(r, 200, <<>>))
  /\ conversions' = UpdateStatusStep(r.conversionId, "COMPLETED", "COMPLETED")
  /\ UNCHANGED <<extractedData, deployedContracts, chain, issued, config,
                 routerCall, call>>

StatusFind(s) ==
  LET r == req[s]
      found == {d \in deployedContracts : d.conversionId = r.conversionId}
  IN
  /\ r.kind = "status" /\ r.pc = "deployedContract.findFirst" /\ Turn(s)
  /\ \/ /\ found = {}
        /\ Put(s,
                     Respond(r, 404, <<"Deployment not found for this conversion">>))
     \/ \E deployedContract \in found :
          Put(s,
                    Respond([r EXCEPT !.explorerUrl =
                               getBlockExplorerUrl(deployedContract.blockchain,
                                                   deployedContract.contractAddress)],
                            200, <<>>))
     \/ Put(s,
                  Respond(r, 500, <<"Failed to fetch deployment status">>))
  /\ UNCHANGED <<db, chain, issued, config, routerCall, call>>

(***************************************************************************)
(* POST /api/generate                                                       *)
(***************************************************************************)
GenerateStart(s) ==
  /\ Ready(s)
  /\ \E contractData \in GenerateBodies, conversionId \in ClientConversionIds :
       LET r == [NewRequest("generate") EXCEPT !.contractData = contractData,
                                                !.conversionId = conversionId]
       IN Put(s,
            IF contractData = NoData
              THEN Respond(r, 400, <<"Missing contractData in request body">>)
            ELSE IF contractData.type = "" \/ Len(contractData.parties) = 0
              THEN Respond(r, 400,
                           <<"contractData must include type and at least one party">>)
            ELSE [r EXCEPT !.pc = "generateSolidityContract"])
  /\ issued' = issued + 1
  /\ UNCHANGED <<db, chain, config, routerCall, call>>

GenerateContract(s) ==
  LET r == req[s] IN
  /\ r.kind = "generate" /\ r.pc = "generateSolidityContract"
  /\ Put(s,
       IF GenerateThrows(r.contractData)
         THEN Respond(Failed(r, "generate"), 500,
                      <<"Error generating contract", "Cannot read properties of undefined">>)
       ELSE IF r.conversionId # 0
         THEN [Ran(r, "generate") EXCEPT
                 !.solidityCode = generateSolidityContract(r.contractData),
                 !.pc = "conversion.update"]
       ELSE Respond([Ran(r, "generate") EXCEPT
                       !.solidityCode = generateSolidityContract(r.contractData)],
                    200, <<>>))
  /\ UNCHANGED <<db, chain, issued, config, routerCall, call>>

GenerateUpdateConversion(s) ==
  LET r == req[s] IN
  /\ r.kind = "generate" /\ r.pc = "conversion.update" /\ Turn(s)
  /\ \/ /\ ~ConversionUpdateRejected(r.conversionId)
        /\ conversions' = UpdateStep(r.conversionId, "GENERATE_CONTRACT")
        /\ Put(s, Respond(Ran(r, "persist"), 200, <<>>))
     \/ /\ ConversionUpdateRejected(r.conversionId)
        /\ conversions' = conversions
        /\ Put(s,
                     Respond(Failed(r, "persist"), 500,
                             <<"Error generating contract", "Record to update not found.">>))
     \/ /\ conversions' = conversions
        /\ Put(s,
                     Respond(Failed(r, "persist"), 500,
                             <<"Error generating contract", "Can't reach database server">>))
  /\ UNCHANGED <<extractedData, deployedContracts, chain, issued, config,
                 routerCall, call>>

(***************************************************************************)
(* Specification of the server                                              *)
(***************************************************************************)
Upload(s) ==
  \/ UploadNoFile(s)
  \/ UploadStart(s)
  \/ UploadParsePdf(s)
  \/ UploadExtract(s)
  \/ UploadGenerate(s)
  \/ UploadDeployContract(s)
  \/ UploadCreateConversion(s)
  \/ UploadCreateDeployedContract(s)
  \/ UploadUpdateConversion(s)

Extract(s) ==
  \/ ExtractStart(s)
  \/ ExtractParsePdf(s)
  \/ ExtractExtract(s)
  \/ ExtractCreateConversion(s)

Deploy(s) ==
  \/ DeployStart(s)
  \/ DeployCompile(s)
  \/ DeployToBlockchain(s)
  \/ DeployCreateRecord(s)
  \/ DeployUpdateConversion(s)

Status(s) ==
  \/ StatusStart(s)
  \/ StatusFind(s)

Generate(s) ==
  \/ GenerateStart(s)
  \/ GenerateContract(s)
  \/ GenerateUpdateConversion(s)

Next ==
  \E s \in Slots :
    \/ Upload(s)
    \/ Extract(s)
    \/ Deploy(s)
    \/ Status(s)
    \/ Generate(s)

Spec == Init /\ [][Next]_vars

(***************************************************************************)
(* Specification of the deployment router called directly                   *)
(***************************************************************************)
NetworkNames == {ethereum, polygon, ETHEREUM, POLYGON, Ethereum, PoLyGoN, SOLANA, solana, <<>>}

ArtifactTexts == {EmptyCode, BlankCode, NoPragmaCode, NoContractCode, ValidCode}

CallRouter ==
  /\ ~routerCall.called
  /\ \E code \in ArtifactTexts, blockchain \in NetworkNames, out \in SolcOutputs,
        net \in NetOutcomes :
       routerCall' =
         [called |-> TRUE, solidityCode |-> code, blockchain |-> blockchain,
          solc |-> out, cfg |-> config, net |-> net,
          result |-> deployContractToBlockchain(code, blockchain, out, config, net, 1)]
  /\ UNCHANGED <<db, chain, req, issued, config, returned, call>>

RouterInit ==
  /\ conversions = {}
  /\ extractedData = {}
  /\ deployedContracts = {}
  /\ chain = 0
  /\ req = [s \in Slots |-> NoRequest]
  /\ issued = 0
  /\ config \in Configs
  /\ returned = NoRequest
  /\ routerCall = NoCall
  /\ call = NoLibCall

RouterSpec == RouterInit /\ [][CallRouter]_vars

(***************************************************************************)
(* Field extractor (pattern matching over the document text).  Texts are    *)
(* strings; Ch(t, i) is the character at position i, counted from 1.        *)
(***************************************************************************)
Ch(t, i) == SubSeq(t, i, i)

\* c is in the character class cls of a pattern: "ws" is \s, "letter" [a-zA-Z],
\* "digit" [0-9], "numChar" [0-9,], "notLetter" [^a-z] under the flag i,
\* "notComma" [^,] and "notCommaDotNl" [^,.\n]
InClass(c, cls) ==
  LET letter == \E i \in 1..26 : c = UpperChars[i] \/ c = LowerChars[i]
      digit == c \in {"0", "1", "2", "3", "4", "5", "6", "7", "8", "9"}
  IN CASE cls = "ws" -> c \in {" ", "\n", "\t"}
       [] cls = "letter" -> letter
       [] cls = "digit" -> digit
       [] cls = "numChar" -> digit \/ c = ","
       [] cls = "notLetter" -> ~letter
       [] cls = "notComma" -> c # ","
       [] cls = "notCommaDotNl" -> c \notin {",", ".", "\n"}

\* a literal of a case-insensitive pattern matches at position i
MatchesAt(t, i, w) ==
  /\ i >= 1
  /\ i + Len(w) - 1 <= Len(t)
  /\ \A k \in 1..Len(w) : LowerChar(Ch(t, i + k - 1)) = LowerChar(Ch(w, k))

Max(S) == CHOOSE x \in S : \A y \in S : y <= x

Min(S) == CHOOSE x \in S : \A y \in S : x <= y

\* length of the longest run of characters of class cls that starts at position i
RunLen(t, i, cls) ==
  IF i > Len(t) THEN 0
  ELSE Min({k \in i..(Len(t) + 1) : k > Len(t) \/ ~InClass(Ch(t, k), cls)}) - i

\* the value of f at its largest argument where the value is not none: a greedy
\* quantifier gives back as little as the rest of the pattern needs
Greediest(f, none) ==
  LET ks == {k \in DOMAIN f : f[k] # none}
  IN IF ks = {} THEN none ELSE f[Max(ks)]

\* the value of f at its smallest argument where the value is not none: the
\* leftmost match, or the first alternative that leads to a match
Leftmost(f, none) ==
  LET ks == {k \in DOMAIN f : f[k] # none}
  IN IF ks = {} THEN none ELSE f[Min(ks)]

\* what head matched, followed by what the rest of the pattern matched
Then(head, rest, none) == IF rest = none THEN none ELSE head \o rest

\* String.prototype.replace(/\s+/g, " "), computed by halves: where the halves
\* meet, two blanks become one
RECURSIVE CollapseWs(_)
CollapseWs(t) ==
  IF Len(t) = 0 THEN ""
  ELSE IF Len(t) = 1 THEN (IF InClass(t, "ws") THEN " " ELSE t)
  ELSE LET left == CollapseWs(SubSeq(t, 1, Len(t) \div 2))
           right == CollapseWs(SubSeq(t, Len(t) \div 2 + 1, Len(t)))
       IN IF Ch(left, Len(left)) = " " /\ Head(right) = " "
            THEN left \o Tail(right)
            ELSE left \o right

\* String.prototype.trim
TrimStr(t) ==
  LET NonWs == {i \in 1..Len(t) : ~InClass(Ch(t, i), "ws")}
  IN IF NonWs = {} THEN "" ELSE SubSeq(t, Min(NonWs), Max(NonWs))

\* the rules of extractContractType, in list order: head, gap, tail
TypeRules ==
  <<[head |-> "service", gap |-> "ws", tail |-> "agreement", type |-> "Service Agreement"],
    [head |-> "purchase", gap |-> "ws", tail |-> "agreement", type |-> "Purchase Agreement"],
    [head |-> "employment", gap |-> "ws", tail |-> "contract", type |-> "Employment Contract"],
    [head |-> "lease", gap |-> "ws", tail |-> "agreement", type |-> "Lease Agreement"],
    [head |-> "non", gap |-> "nonletters", tail |-> "disclosure", type |-> "NDA"],
    [head |-> "loan", gap |-> "ws", tail |-> "agreement", type |-> "Loan Agreement"]>>

\* pattern.test(text) for head\s+tail or head[^a-z]*tail, case-insensitive
RuleMatches(rule, t) ==
  \E i \in 1..Len(t) :
    /\ MatchesAt(t, i, rule.head)
    /\ LET p == i + Len(rule.head)
           n == IF rule.gap = "ws" THEN RunLen(t, p, "ws") ELSE RunLen(t, p, "notLetter")
           least == IF rule.gap = "ws" THEN 1 ELSE 0
       IN \E m \in least..n : MatchesAt(t, p + m, rule.tail)

\* the label of the last rule that matches
extractContractTypeLast(t) ==
  LET hits == {k \in 1..Len(TypeRules) : RuleMatches(TypeRules[k], t)}
  IN IF hits # {} THEN TypeRules[Max(hits)].type ELSE "Service Agreement"

extractContractType(t) ==
  LET hits == {k \in 1..Len(TypeRules) : RuleMatches(TypeRules[k], t)}
  IN IF hits # {} THEN TypeRules[Min(hits)].type ELSE "Service Agreement"

\* the capture groups of
\* /(?:between|by and between)\s+([^,]+)\s+(?:and|AND)\s+([^,.\n]+)/i
\* at its leftmost match, greedy quantifiers giving back as little as needed;
\* <<>> when the pattern does not match
BetweenGroups(t) ==
  LET Last(r) ==
        Greediest([k \in 1..RunLen(t, r, "ws") |->
                     LET n == RunLen(t, r + k, "notCommaDotNl")
                     IN IF n >= 1 THEN <<SubSeq(t, r + k, r + k + n - 1)>> ELSE <<>>],
                  <<>>)
      AndThen(q) ==
        Greediest([k \in 1..RunLen(t, q, "ws") |->
                     IF MatchesAt(t, q + k, "and") THEN Last(q + k + 3) ELSE <<>>],
                  <<>>)
      First(g) ==
        Greediest([e \in g..(g + RunLen(t, g, "notComma") - 1) |->
                     Then(<<SubSeq(t, g, e)>>, AndThen(e + 1), <<>>)],
                  <<>>)
      After(p) == Greediest([k \in 1..RunLen(t, p, "ws") |-> First(p + k)], <<>>)
      At(i) ==
        Leftmost(<<IF MatchesAt(t, i, "between") THEN After(i + 7) ELSE <<>>,
                   IF MatchesAt(t, i, "by and between") THEN After(i + 14) ELSE <<>>>>,
                 <<>>)
  IN Leftmost([i \in 1..Len(t) |-> At(i)], <<>>)

\* the capture group of /(?:party|Party)\s+(?:ord1|ord2)\s*[:=]?\s*([^,.\n]+)/i
PartyGroups(t, ord1, ord2) ==
  LET Group(g) ==
        LET n == RunLen(t, g, "notCommaDotNl")
        IN IF n >= 1 THEN <<SubSeq(t, g, g + n - 1)>> ELSE <<>>
      Ws2(r) == Greediest([k \in 0..RunLen(t, r, "ws") |-> Group(r + k)], <<>>)
      Sep(q) ==
        Leftmost(<<IF q <= Len(t) /\ Ch(t, q) \in {":", "="} THEN Ws2(q + 1) ELSE <<>>,
                   Ws2(q)>>,
                 <<>>)
      Ws1(p) == Greediest([k \in 0..RunLen(t, p, "ws") |-> Sep(p + k)], <<>>)
      Word(w) ==
        Leftmost(<<IF MatchesAt(t, w, ord1) THEN Ws1(w + Len(ord1)) ELSE <<>>,
                   IF MatchesAt(t, w, ord2) THEN Ws1(w + Len(ord2)) ELSE <<>>>>,
                 <<>>)
      After(p) == Greediest([k \in 1..RunLen(t, p, "ws") |-> Word(p + k)], <<>>)
      At(i) == IF MatchesAt(t, i, "party") THEN After(i + 5) ELSE <<>>
  IN Leftmost([i \in 1..Len(t) |-> At(i)], <<>>)

\* [...new Set(arr)]: duplicates removed, first-seen order kept
RECURSIVE Unique(_)
Unique(arr) ==
  IF arr = <<>> THEN <<>>
  ELSE LET front == Unique(SubSeq(arr, 1, Len(arr) - 1))
           last == arr[Len(arr)]
       IN IF \E i \in 1..Len(front) : front[i] = last THEN front
          ELSE Append(front, last)

extractParties(t) ==
  LET groups == BetweenGroups(t) \o PartyGroups(t, "first", "1st")
                  \o PartyGroups(t, "second", "2nd")
      trimmed == [i \in 1..Len(groups) |-> TrimStr(groups[i])]
  IN Unique(SelectSeq(trimmed, LAMBDA p : Len(p) > 0))

\* end of [0-9,]+(?:\.[0-9]{2})? started at g, the run of [0-9,] having n characters
NumberEnd(t, g, n) ==
  LET e == g + n - 1
  IN IF MatchesAt(t, e + 1, ".") /\ e + 3 <= Len(t)
          /\ InClass(Ch(t, e + 2), "digit") /\ InClass(Ch(t, e + 3), "digit")
       THEN e + 3
       ELSE e

\* first literal of the list lits that matches at position p, "" when none does
FirstLiteral(t, p, lits) ==
  LET hits == {k \in 1..Len(lits) : MatchesAt(t, p, lits[k])}
  IN IF hits = {} THEN "" ELSE lits[Min(hits)]

\* match[0] of /(?:payment|amount)\s*[:=]?\s*(?:\$|USD|EUR|USDC)?\s*
\*             ([0-9,]+(?:\.[0-9]{2})?)\s*([A-Z]{0,4})?/i, "" when no match
PaymentLabelled(t) ==
  LET Number(g) ==
        LET n == RunLen(t, g, "numChar")
            w == NumberEnd(t, g, n) + 1 + RunLen(t, NumberEnd(t, g, n) + 1, "ws")
        IN IF n = 0 THEN "" ELSE SubSeq(t, g, w - 1 + Min({4, RunLen(t, w, "letter")}))
      Currency(c) ==
        Leftmost([k \in 1..5 |->
                    LET lit == <<"$", "USD", "EUR", "USDC", "">>[k]
                        g == c + Len(lit) + RunLen(t, c + Len(lit), "ws")
                    IN IF MatchesAt(t, c, lit)
                         THEN Then(SubSeq(t, c, g - 1), Number(g), "")
                         ELSE ""],
                 "")
      Tail1(p) ==
        LET a == p + RunLen(t, p, "ws")
            b == IF a <= Len(t) /\ Ch(t, a) \in {":", "="} THEN a + 1 ELSE a
            c == b + RunLen(t, b, "ws")
        IN Then(SubSeq(t, p, c - 1), Currency(c), "")
      At(i) ==
        LET kw == FirstLiteral(t, i, <<"payment", "amount">>)
        IN IF kw = "" THEN ""
           ELSE Then(SubSeq(t, i, i + Len(kw) - 1), Tail1(i + Len(kw)), "")
  IN Leftmost([i \in 1..Len(t) |-> At(i)], "")

\* match[0] of /(\$?[0-9,]+(?:\.[0-9]{2})?)\s+(?:USD|EUR|USDC|dollars|euros)/i
PaymentAmount(t) ==
  LET Unit(e) ==
        Greediest([k \in 1..RunLen(t, e + 1, "ws") |->
                     LET lit == FirstLiteral(t, e + 1 + k,
                                             <<"USD", "EUR", "USDC", "dollars", "euros">>)
                     IN IF lit = "" THEN 0 ELSE e + k + Len(lit)],
                  0)
      Number(g) ==
        LET n == RunLen(t, g, "numChar")
        IN IF n = 0 THEN 0
           ELSE Leftmost(<<Unit(NumberEnd(t, g, n)), Unit(g + n - 1)>>, 0)
      At(i) ==
        Leftmost(<<IF MatchesAt(t, i, "$") THEN Number(i + 1) ELSE 0, Number(i)>>, 0)
  IN Leftmost([i \in 1..Len(t) |-> IF At(i) = 0 THEN "" ELSE SubSeq(t, i, At(i))], "")

\* undefined is the empty string
extractPaymentTerms(t) ==
  LET labelled == PaymentLabelled(t)
      amount == PaymentAmount(t)
  IN TrimStr(IF labelled # "" THEN labelled ELSE amount)

\* match[1] of /(?:duration|term|period|for)\s+(?:a\s+)?
\*             ([0-9]+\s+(?:days?|weeks?|months?|years?))/i, trimmed
extractDuration(t) ==
  LET Unit(u) ==
        LET lit == FirstLiteral(t, u, <<"day", "week", "month", "year">>)
        IN IF lit = "" THEN 0
           ELSE IF MatchesAt(t, u + Len(lit), "s") THEN u + Len(lit) ELSE u + Len(lit) - 1
      Group(g) ==
        LET n == RunLen(t, g, "digit")
        IN IF n = 0 THEN ""
           ELSE Greediest([k \in 1..RunLen(t, g + n, "ws") |->
                             IF Unit(g + n + k) = 0 THEN ""
                             ELSE SubSeq(t, g, Unit(g + n + k))],
                          "")
      Article(q) ==
        Leftmost(<<IF MatchesAt(t, q, "a")
                     THEN Greediest([k \in 1..RunLen(t, q + 1, "ws") |-> Group(q + 1 + k)], "")
                     ELSE "",
                   Group(q)>>,
                 "")
      After(p) == Greediest([k \in 1..RunLen(t, p, "ws") |-> Article(p + k)], "")
      At(i) ==
        Leftmost([k \in 1..4 |->
                    LET kw == <<"duration", "term", "period", "for">>[k]
                    IN IF MatchesAt(t, i, kw) THEN After(i + Len(kw)) ELSE ""],
                 "")
  IN TrimStr(Leftmost([i \in 1..Len(t) |-> At(i)], ""))

\* one match of a pattern of extractObligations that starts at position i, as
\* <<match[1], position of the last character of the match>>; <<>> when the
\* pattern does not match there.  The family "modal" is
\* /(?:shall|must|required to|agrees to)\s+([^,.\n]{10,150})/gi and the other
\* family is /(?:obligation|duty|responsibility)\s*[:=]?\s*([^,.\n]{10,150})/gi
ObligationMatchAt(t, i, family) ==
  LET Group(g) ==
        LET n == Min({150, RunLen(t, g, "notCommaDotNl")})
        IN IF n >= 10 THEN <<SubSeq(t, g, g + n - 1), g + n - 1>> ELSE <<>>
      Ws2(r) == Greediest([k \in 0..RunLen(t, r, "ws") |-> Group(r + k)], <<>>)
      \* [:=]? takes the separator when there is one and gives it back when
      \* nothing matches after it
      Sep(q) ==
        Leftmost([s \in 1..2 |->
                    IF s = 1 /\ ~(q <= Len(t) /\ Ch(t, q) \in {":", "="}) THEN <<>>
                    ELSE Ws2(q + 2 - s)],
                 <<>>)
      After(p) ==
        IF family = "modal"
          THEN Greediest([k \in 1..RunLen(t, p, "ws") |-> Group(p + k)], <<>>)
          ELSE Greediest([k \in 0..RunLen(t, p, "ws") |-> Sep(p + k)], <<>>)
      Keyword(kw) == IF kw = "" THEN <<>> ELSE After(i + Len(kw))
  IN Keyword(FirstLiteral(t, i, IF family = "modal"
                                  THEN <<"shall", "must", "required to", "agrees to">>
                                  ELSE <<"obligation", "duty", "responsibility">>))

\* the loop over pattern.exec(text): the matches from position from on, each
\* search starting after the match before it
RECURSIVE ObligationMatches(_, _, _)
ObligationMatches(t, from, family) ==
  LET Rest(found) ==
        IF found = <<>> THEN <<>>
        ELSE <<found[1]>> \o ObligationMatches(t, found[2] + 1, family)
  IN Rest(Leftmost([i \in from..Len(t) |-> ObligationMatchAt(t, i, family)], <<>>))

extractObligations(t) ==
  LET Sliced(obligations) == SubSeq(obligations, 1, Min({5, Len(obligations)}))
      Kept(matches) ==
        Unique(SelectSeq([i \in 1..Len(matches) |-> TrimStr(matches[i])],
                         LAMBDA o : Len(o) > 10 /\ Len(o) < 200))
      \* the modal-verb pattern is scanned first
      Both(found) == found[1] \o found[2]
  IN Sliced(Kept(Both([k \in 1..2 |->
                         ObligationMatches(t, 1, <<"modal", "noun">>[k])])))

\* trigger and dates are not part of the modelled terms
extractContractDataWithPatterns(pdfText) ==
  LET cleanText == TrimStr(CollapseWs(pdfText))
  IN [type |-> extractContractType(cleanText),
      parties |-> extractParties(cleanText),
      terms |-> [payment |-> extractPaymentTerms(cleanText),
                 duration |-> extractDuration(cleanText),
                 obligations |-> extractObligations(cleanText)],
      summary |-> ""]

createSummary(data) ==
  data.type
    \o (IF Len(data.parties) > 0 THEN " between " \o Join(data.parties, ", ") ELSE "")
    \o (IF data.terms.payment # "" THEN " - Payment: " \o data.terms.payment ELSE "")
    \o (IF data.terms.duration # "" THEN " - Duration: " \o data.terms.duration ELSE "")

(***************************************************************************)
(* Assisted extractor.  The reply of the external service is either a       *)
(* thrown error or a content: a sequence of lexical pieces, of which "{",   *)
(* "}" and a JSON member list are the ones the code looks at.               *)
(***************************************************************************)
Prose(txt) == [lex |-> "prose", text |-> txt]

Brace(b) == [lex |-> b]

\* a JSON member list; has is the set of members present
Members(has, type, parties, terms, summary) ==
  [lex |-> "members", has |-> has, type |-> type, parties |-> parties,
   terms |-> terms, summary |-> summary]

\* content.match(/\{[\s\S]*\}/): from the first "{" to the last "}" after it
JsonMatch(content) ==
  LET opens == {i \in 1..Len(content) :
                  /\ content[i].lex = "{"
                  /\ \E j \in (i + 1)..Len(content) : content[j].lex = "}"}
      closes == {j \in 1..Len(content) : content[j].lex = "}"}
  IN IF opens = {} THEN <<>> ELSE SubSeq(content, Min(opens), Max(closes))

\* JSON.parse accepts "{" members "}" and "{" "}"
JsonParses(m) ==
  \/ Len(m) = 2 /\ m[1].lex = "{" /\ m[2].lex = "}"
  \/ Len(m) = 3 /\ m[1].lex = "{" /\ m[2].lex = "members" /\ m[3].lex = "}"

NoTerms == [payment |-> "", duration |-> ""]

JsonParse(m) ==
  IF Len(m) = 3 THEN m[2] ELSE Members({}, "", <<>>, NoTerms, "")

Threw == [threw |-> TRUE]

Returned(data) == [threw |-> FALSE, value |-> data]

\* an attempt that takes the parsed object without looking at type and parties
AssistedAttemptUnvalidated(pdfText, reply) ==
  LET Matched(jsonMatch) ==
        IF jsonMatch = <<>> THEN Returned(extractContractDataWithPatterns(pdfText))
        ELSE IF ~JsonParses(jsonMatch) THEN Threw
        ELSE Returned([type |-> JsonParse(jsonMatch).type,
                       parties |-> JsonParse(jsonMatch).parties,
                       terms |-> JsonParse(jsonMatch).terms,
                       summary |-> createSummary(JsonParse(jsonMatch))])
  IN IF reply.throws THEN Threw ELSE Matched(JsonMatch(reply.content))

\* the try block of extractContractData
AssistedAttempt(pdfText, reply) ==
  LET Validated(parsed) ==
        IF \/ "type" \notin parsed.has
           \/ parsed.type = ""
           \/ "parties" \notin parsed.has
           \/ Len(parsed.parties) = 0
          THEN Returned(extractContractDataWithPatterns(pdfText))
        ELSE IF "terms" \notin parsed.has THEN Threw
        ELSE Returned([type |-> parsed.type,
                       parties |-> parsed.parties,
                       terms |-> parsed.terms,
                       summary |-> createSummary(parsed)])
      Matched(jsonMatch) ==
        IF jsonMatch = <<>> THEN Returned(extractContractDataWithPatterns(pdfText))
        ELSE IF ~JsonParses(jsonMatch) THEN Threw
        ELSE Validated(JsonParse(jsonMatch))
  IN IF reply.throws THEN Threw ELSE Matched(JsonMatch(reply.content))

\* extractContractData(pdfText); apiKey is whether OPENAI_API_KEY is set and
\* reply what the service does with the one request
extractContractData(pdfText, apiKey, reply) ==
  LET \* the catch block returns what the fallback returns
      Settled(attempt) ==
        [raised |-> FALSE, requests |-> 1,
         value |-> IF attempt.threw THEN extractContractDataWithPatterns(pdfText)
                   ELSE attempt.value]
  IN IF ~apiKey
       THEN [raised |-> FALSE, requests |-> 0,
             value |-> extractContractDataWithPatterns(pdfText)]
       ELSE Settled(AssistedAttempt(pdfText, reply))

(***************************************************************************)
(* Specification of the field extractor called directly                     *)
(***************************************************************************)
FieldTexts ==
  LET \* phrases of the type rules, whole and in parts, in several spellings
      TypePhrases ==
        {"", "Service Agreement", "purchase\n agreement", "Employment Contract",
         "LEASE  AGREEMENT", "non-disclosure", "Nondisclosure", "Loan agreement",
         "service", "agreement", "loanagreement"}
      \* texts that name parties, some of them more than once
      PartyTexts ==
        {"This Agreement is between Acme Corp and Globex Inc.",
         "Agreement between Alice and Bob. Party first: Alice. Party second: Bob",
         "by and between  Alice  and  Alice , the parties",
         "Party 2nd = Bob, Party 1st = Alice, made between Carol and Bob and Dave",
         "Party first:   .",
         "between Alice, Bob and Carol"}
      \* texts that state obligations: more than five, repeated ones, short and
      \* long ones, of both families in either order
      ObligationTexts ==
        {"The supplier shall deliver it.",
         "The supplier shall deliver all.",
         "Duty: be on time. Obligation = keep the books",
         "duty:12345678. duty :  123456789",
         "Obligation: keep the records. The buyer must pay the invoice, shall keep the records. Duty: pay the invoice",
         "A shall do the first thing. B must do the second thing. C agrees to do the third thing. D is required to do the fourth thing. E shall do the fifth thing. F must do the sixth thing. Responsibility: the seventh thing",
         "A shall do the same thing. B shall do the same thing. C SHALL do the same thing",
         "The tenant shall keep the premises clean and in good repair and return them at the end of the lease in the state in which they were at its start and pay for every damage that is found then, and leave",
         "must shall agrees to obligation duty"}
  IN {a \o " " \o b : a \in TypePhrases, b \in TypePhrases}
       \cup PartyTexts \cup ObligationTexts

CallExtractContractDataWithPatterns ==
  /\ call.fn = "none"
  /\ \E pdfText \in FieldTexts :
       call' = [fn |-> "extractContractDataWithPatterns", pdfText |-> pdfText,
                result |-> extractContractDataWithPatterns(pdfText)]
  /\ UNCHANGED <<db, chain, req, issued, config, returned, routerCall>>

FieldExtractorSpec == Init /\ [][CallExtractContractDataWithPatterns]_vars

(***************************************************************************)
(* Specification of the assisted extractor called directly                  *)
(***************************************************************************)
PdfTexts ==
  {"",
   "hello world",
   "Service Agreement between Alice and Bob, payment $2,000 USDC for 30 days",
   "This Agreement is between Acme Corp and Globex Inc.",
   "Lease   agreement\n\nParty first: Alice.\nParty second: Alice.",
   "NON-DISCLOSURE terms for a 2 weeks period"}

ServiceReplies ==
  LET UsableMembers ==
        Members({"type", "parties", "terms", "summary"}, "NDA",
                <<"Acme Corp", "Globex Inc">>,
                [payment |-> "500 USDC", duration |-> ""], "written by the model")
  IN
  {[throws |-> TRUE, content |-> <<>>]}
    \cup {[throws |-> FALSE, content |-> c] :
            c \in {<<>>,
                   <<Prose("I could not find a contract.")>>,
                   <<Brace("}"), Prose("no object"), Brace("{")>>,
                   <<Brace("{"), [lex |-> "garbage"], Brace("}")>>,
                   <<Brace("{"), UsableMembers, Brace("}"), Brace("}")>>,
                   <<Brace("{"), Brace("}")>>,
                   <<Brace("{"), Members({"parties", "terms"}, "", <<"Acme Corp">>, NoTerms, ""),
                     Brace("}")>>,
                   <<Brace("{"), Members({"type", "parties", "terms"}, "", <<"Acme Corp">>, NoTerms, ""),
                     Brace("}")>>,
                   <<Brace("{"), Members({"type", "terms"}, "NDA", <<>>, NoTerms, ""),
                     Brace("}")>>,
                   <<Brace("{"), Members({"type", "parties", "terms"}, "NDA", <<>>, NoTerms, ""),
                     Brace("}")>>,
                   <<Brace("{"), Members({"type", "parties"}, "NDA", <<"Acme Corp">>, NoTerms, ""),
                     Brace("}")>>,
                   <<Prose("Here is the JSON:"), Brace("{"), UsableMembers, Brace("}"),
                     Prose("Let me know.")>>,
                   <<Brace("{"), UsableMembers, Brace("}")>>,
                   <<Brace("{"),
                     Members({"type", "parties", "terms"}, "Loan Agreement", <<"Alice", "Bob">>,
                             [payment |-> "", duration |-> "10 days"], ""),
                     Brace("}")>>}}

CallExtractContractData ==
  /\ call.fn = "none"
  /\ \E pdfText \in PdfTexts, apiKey \in BOOLEAN, reply \in ServiceReplies :
       call' = [fn |-> "extractContractData", pdfText |-> pdfText, apiKey |-> apiKey,
                reply |-> reply,
                result |-> extractContractData(pdfText, apiKey, reply)]
  /\ UNCHANGED <<db, chain, req, issued, config, returned, routerCall>>

ExtractorSpec == Init /\ [][CallExtractContractData]_vars

(***************************************************************************)
(* Code generator: the template context and the string-literal              *)
(* declarations of the template.                                            *)
(***************************************************************************)
\* String.prototype.replace(/[^a-zA-Z0-9]/g, '_'), computed by halves
RECURSIVE ReplaceNonAlnum(_)
ReplaceNonAlnum(name) ==
  IF name = "" THEN ""
  ELSE IF Len(name) = 1
    THEN (IF InClass(name, "letter") \/ InClass(name, "digit") THEN name ELSE "_")
  ELSE ReplaceNonAlnum(SubSeq(name, 1, Len(name) \div 2))
         \o ReplaceNonAlnum(SubSeq(name, Len(name) \div 2 + 1, Len(name)))

\* String.prototype.replace(/_+/g, '_'), computed by halves: where the halves
\* meet, two underscores become one
RECURSIVE CollapseUnderscores(_)
CollapseUnderscores(name) ==
  IF Len(name) <= 1 THEN name
  ELSE LET left == CollapseUnderscores(SubSeq(name, 1, Len(name) \div 2))
           right == CollapseUnderscores(SubSeq(name, Len(name) \div 2 + 1, Len(name)))
       IN IF Ch(left, Len(left)) = "_" /\ Head(right) = "_"
            THEN left \o Tail(right)
            ELSE left \o right

\* a sanitizer that leaves runs of underscores in place
sanitizeContractNameUncollapsed(name) ==
  LET replaced == ReplaceNonAlnum(name)
      \* String.prototype.replace(/^[0-9]/, '_$&')
      prefixed == IF replaced # "" /\ InClass(Head(replaced), "digit")
                    THEN "_" \o replaced ELSE replaced
  \* String.prototype.substring(0, 100)
  IN IF Len(prefixed) > 100 THEN SubSeq(prefixed, 1, 100) ELSE prefixed

sanitizeContractName(name) ==
  LET replaced == ReplaceNonAlnum(name)
      \* String.prototype.replace(/^[0-9]/, '_$&')
      prefixed == IF replaced # "" /\ InClass(Head(replaced), "digit")
                    THEN "_" \o replaced ELSE replaced
      collapsed == CollapseUnderscores(prefixed)
  \* String.prototype.substring(0, 100)
  IN IF Len(collapsed) > 100 THEN SubSeq(collapsed, 1, 100) ELSE collapsed

\* x || fallback for strings
OrElse(x, fallback) == IF x = "" THEN fallback ELSE x

templateContext(contractData) ==
  [contractName |-> sanitizeContractName(contractData.type),
   description |-> contractData.type \o " contract between "
                     \o Join(contractData.parties, ", "),
   paymentTerms |-> OrElse(contractData.terms.payment, "Not specified"),
   duration |-> OrElse(contractData.terms.duration, "Not specified"),
   trigger |-> OrElse(contractData.terms.trigger, "Manual trigger"),
   amount |-> OrElse(contractData.terms.payment, "0"),
   obligations |-> Join(contractData.terms.obligations, "; ")]

\* what Handlebars substitutes for {{value}}: the HTML-escaped value (the
\* grave accent, also escaped, is not among the modelled characters)
RECURSIVE escapeExpression(_)
escapeExpression(str) ==
  IF str = "" THEN ""
  ELSE (CASE Head(str) = "&" -> "&amp;"
          [] Head(str) = "<" -> "&lt;"
          [] Head(str) = ">" -> "&gt;"
          [] Head(str) = "\"" -> "&quot;"
          [] Head(str) = "'" -> "&#x27;"
          [] Head(str) = "=" -> "&#x3D;"
          [] OTHER -> Head(str))
         \o escapeExpression(Tail(str))

\* the string-literal declarations of the template: state variable and field
getSolidityTemplate ==
  <<[variable |-> "contractType", field |-> "contractName"],
    [variable |-> "description", field |-> "description"],
    [variable |-> "paymentTerms", field |-> "paymentTerms"],
    [variable |-> "contractDuration", field |-> "duration"],
    [variable |-> "triggerCondition", field |-> "trigger"],
    [variable |-> "obligations", field |-> "obligations"]>>

\* the rendered declarations, in template order
compiledTemplate(context) ==
  [i \in 1..Len(getSolidityTemplate) |->
     "string public " \o getSolidityTemplate[i].variable \o " = \""
       \o escapeExpression(context[getSolidityTemplate[i].field]) \o "\";"]

(***************************************************************************)
(* Specifications of the code generator and of the name sanitizer called    *)
(* directly                                                                 *)
(***************************************************************************)
GeneratorInputs ==
  LET TermValues ==
        {"", "30 days", "say \"hi\"", "C:\\temp\\", "line one\nline two", "A & B"}
  IN
  {[type |-> type, parties |-> parties,
    terms |-> [payment |-> payment, duration |-> "30 days", trigger |-> trigger,
               obligations |-> obligations]] :
     type \in {"Service Agreement", "3 Party NDA!!"},
     parties \in {<<"Alice", "Bob">>, <<"O'Neil">>},
     payment \in TermValues,
     trigger \in TermValues,
     obligations \in {<<>>, <<"deliver the goods", "pay \"on time\"">>,
                      <<"keep records\n">>}}

\* the string-literal declarations of the artifact generateSolidityContract returns
CallGenerateSolidityContract ==
  /\ call.fn = "none"
  /\ \E contractData \in GeneratorInputs :
       call' = [fn |-> "generateSolidityContract", contractData |-> contractData,
                context |-> templateContext(contractData),
                result |-> compiledTemplate(templateContext(contractData))]
  /\ UNCHANGED <<db, chain, req, issued, config, returned, routerCall>>

GeneratorSpec == Init /\ [][CallGenerateSolidityContract]_vars

RECURSIVE Repeat(_, _)
Repeat(str, n) ==
  IF n = 0 THEN ""
  ELSE IF n = 1 THEN str
  ELSE Repeat(str, n \div 2) \o Repeat(str, n - n \div 2)

TypeNames ==
  LET NameChars == {"", "a", "Z", "3", "_", " ", "!"}
  IN
  {a \o b \o c : a \in NameChars, b \in NameChars, c \in NameChars}
    \cup {Repeat("x", 101), "9" \o Repeat("y", 100), Repeat("a ", 60),
          "3 Party NDA!!", "Service Agreement"}

CallSanitizeContractName ==
  /\ call.fn = "none"
  /\ \E name \in TypeNames :
       call' = [fn |-> "sanitizeContractName", name |-> name,
                result |-> sanitizeContractName(name)]
  /\ UNCHANGED <<db, chain, req, issued, config, returned, routerCall>>

SanitizerSpec == Init /\ [][CallSanitizeContractName]_vars

(***************************************************************************)
(* Specification of the compilation adapter called directly                 *)
(***************************************************************************)
CompilerOutputs ==
  LET \* an abstract contract: solc reports it with an empty bytecode object
      SolcAbstract ==
        [errors |-> <<>>, hasContracts |-> TRUE, names |-> <<"C">>,
         abi |-> TRUE, evm |-> TRUE, object |-> ""]

      SolcNoAbi ==
        [errors |-> <<>>, hasContracts |-> TRUE, names |-> <<"C">>,
         abi |-> FALSE, evm |-> TRUE, object |-> "6080"]

      \* an output without the "contracts" member
      SolcNoContracts ==
        [errors |-> <<>>, hasContracts |-> FALSE, names |-> <<>>,
         abi |-> FALSE, evm |-> FALSE, object |-> ""]

      SolcTwoContracts ==
        [errors |-> <<[severity |-> "warning", message |-> "Unused variable"],
                      [severity |-> "warning", message |-> "Shadowed name"]>>,
         hasContracts |-> TRUE, names |-> <<"A", "B">>,
         abi |-> TRUE, evm |-> TRUE, object |-> "6081"]

      SolcTwoErrors ==
        [errors |-> <<[severity |-> "error", message |-> "ParserError"],
                      [severity |-> "warning", message |-> "Unused variable"],
                      [severity |-> "error", message |-> "TypeError"]>>,
         hasContracts |-> TRUE, names |-> <<>>,
         abi |-> FALSE, evm |-> FALSE, object |-> ""]

      \* diagnostics of severity info next to a warning
      SolcInfo ==
        [errors |-> <<[severity |-> "info", message |-> "SPDX hint"],
                      [severity |-> "warning", message |-> "Unused variable"],
                      [severity |-> "info", message |-> "Pragma hint"]>>,
         hasContracts |-> TRUE, names |-> <<"C">>,
         abi |-> TRUE, evm |-> TRUE, object |-> "6080"]

      \* an error between diagnostics of the other severities
      SolcInfoError ==
        [errors |-> <<[severity |-> "info", message |-> "SPDX hint"],
                      [severity |-> "error", message |-> "DeclarationError"],
                      [severity |-> "warning", message |-> "Unused variable"],
                      [severity |-> "warning", message |-> "Shadowed name"]>>,
         hasContracts |-> TRUE, names |-> <<>>,
         abi |-> FALSE, evm |-> FALSE, object |-> ""]
  IN SolcOutputs \cup {SolcAbstract, SolcNoAbi, SolcNoContracts, SolcTwoContracts,
                       SolcTwoErrors, SolcInfo, SolcInfoError}

CompilerTexts ==
  ArtifactTexts \cup
  {<<" ", " ">>,
   <<"pragma solidity">>,
   <<"uint x;">>,
   <<" ", "pragma solidity", " ", "contract ", "C {}", " ">>,
   <<"contract ", "C {}", " ", "pragma solidity">>,
   <<"pragma solidity", " ", "abstract ", "contract ", "C {}">>,
   <<" ", "contract ", "C {}">>}

CallCompileSolidityContract ==
  /\ call.fn = "none"
  /\ \E code \in CompilerTexts, out \in CompilerOutputs :
       call' = [fn |-> "compileSolidityContract", solidityCode |-> code, solc |-> out,
                result |-> compileSolidityContract(code, out)]
  /\ UNCHANGED <<db, chain, req, issued, config, returned, routerCall>>

CompilerSpec == Init /\ [][CallCompileSolidityContract]_vars

(***************************************************************************)
(* Specification of the Polygon strategy called directly                    *)
(***************************************************************************)
CallDeployToPolygonMumbai ==
  /\ call.fn = "none"
  /\ \E code \in ArtifactTexts, out \in SolcOutputs, net \in StrategyOutcomes :
       call' = [fn |-> "deployToPolygonMumbai", solidityCode |-> code, solc |-> out,
                cfg |-> config, net |-> net,
                result |-> deployToPolygonMumbai(code, out, config, net, 1)]
  /\ UNCHANGED <<db, chain, req, issued, config, returned, routerCall>>

StrategySpec == RouterInit /\ [][CallDeployToPolygonMumbai]_vars

(***************************************************************************)
(* Properties                                                               *)
(***************************************************************************)
UploadKinds == {"upload", "extract"}

PipelineStages == {"parse", "extract", "generate", "deploy", "persist"}

Terminal == {"COMPLETED", "FAILED"}

\* C1: when a stage of an upload run fails, the run's conversion record is
\* persisted with status FAILED and an error message, and the failed stage is
\* the last stage of the run.
C1_StageFailurePersistsFailed ==
  (returned.kind \in UploadKinds /\ returned.failedStage \in PipelineStages) =>
    /\ \E c \in conversions :
         c.status = "FAILED" /\ c.errorMessage # ""
           /\ (returned.conversion # 0 => c.id = returned.conversion)
    /\ returned.stages[Len(returned.stages)] = returned.failedStage

\* the records a returning request wrote
WrittenBy(r) ==
  IF r.kind \in UploadKinds THEN {r.conversion} \ {0}
  ELSE IF r.kind \in {"deploy", "generate"} /\ "persist" \in {r.stages[i] : i \in 1..Len(r.stages)}
    THEN {r.conversionId} \cap ConversionIds
  ELSE {}

\* C2: when an upload, generate or deploy request returns, normally or through
\* its error path, every conversion record it wrote has status COMPLETED or FAILED.
C2_ReturnsLeaveTerminalStatus ==
  \A c \in conversions : c.id \in WrittenBy(returned) => c.status \in Terminal

\* C3: a conversion record whose status is COMPLETED or FAILED is never changed
\* by a later step.
C3_TerminalRecordsFrozen ==
  [][\A c \in conversions : c.status \in Terminal => c \in conversions']_vars

\* C4: when an upload request that carried a file returns, the removal of its
\* temporary file was attempted exactly once and performed exactly once.
C4_TempFileRemovedExactlyOnce ==
  (returned.kind \in UploadKinds /\ returned.hasFile) =>
    returned.unlinkAttempts = 1 /\ returned.unlinkDone = 1

\* C5: an upload run in which every stage succeeded ends with one conversion
\* record in (COMPLETED, COMPLETED) carrying the extracted type, and exactly one
\* extracted-data record linked to it whose parties are the extracted parties
\* joined by ", " in extraction order.
C5_SuccessfulUploadPersisted ==
  (returned.kind \in UploadKinds /\ returned.response = 200) =>
    LET mine == {c \in conversions : c.id = returned.conversion}
        data == {e \in extractedData : e.conversionId = returned.conversion}
    IN /\ Cardinality(mine) = 1
       /\ \A c \in mine :
            /\ c.status = "COMPLETED"
            /\ c.processingStep = "COMPLETED"
            /\ c.contractType = returned.contractData.type
       /\ Cardinality(data) = 1
       /\ \A e \in data :
            /\ returned.contractData.parties = <<"Alice", "Bob">> => e.parties = "Alice, Bob"
            /\ returned.contractData.parties = <<"Acme Corp">> => e.parties = "Acme Corp"
            /\ returned.contractData.parties \in {<<"Alice", "Bob">>, <<"Acme Corp">>}

C5_Witness ==
  /\ returned.kind = "upload"
  /\ returned.response = 200
  /\ returned.deploy
  /\ returned.contractData.parties = <<"Alice", "Bob">>
  /\ \E e \in extractedData :
       e.conversionId = returned.conversion /\ e.parties = "Alice, Bob"

\* C6: when a deploy request for an existing conversion fails at compilation or
\* at deployment, that conversion is persisted with status FAILED and an error
\* message, and no deployed-contract record is created by the request.
C6_DeployFailurePersisted ==
  (/\ returned.kind = "deploy"
   /\ returned.failedStage \in {"compile", "deploy"}
   /\ returned.conversionId \in ConversionIds) =>
    /\ Conversion(returned.conversionId).status = "FAILED"
    /\ Conversion(returned.conversionId).errorMessage # ""
    /\ \A i \in 1..Len(returned.stages) : returned.stages[i] # "persist"

\* a step taken on behalf of a deploy request that carries no conversionId
ConversionlessDeployStep(s) ==
  /\ Deploy(s)
  /\ \/ req'[s].kind = "deploy" /\ req'[s].conversionId = 0
     \/ returned'.kind = "deploy" /\ returned'.conversionId = 0

\* C7: a deploy request without a conversionId creates no deployed-contract
\* record, changes no conversion record, and returns an error outcome.
C7_ConversionlessDeployRejected ==
  [][\A s \in Slots :
       ConversionlessDeployStep(s) =>
         /\ deployedContracts' = deployedContracts
         /\ conversions' = conversions
         /\ (returned'.kind = "deploy" => returned'.response >= 400)]_vars

C7_Witness ==
  /\ returned.kind = "deploy"
  /\ returned.conversionId = 0
  /\ returned.deploymentResult.success
  /\ returned.response = 400
  /\ conversions # {}

\* C8: every conversion has at most one extracted-data record and at most one
\* deployed-contract record, and a child record that exists is never modified
\* or removed.
C8_ChildrenOneToOneImmutable ==
  /\ [](\A c \in conversions :
          /\ Cardinality({e \in extractedData : e.conversionId = c.id}) <= 1
          /\ Cardinality({d \in deployedContracts : d.conversionId = c.id}) <= 1)
  /\ [][/\ extractedData \subseteq extractedData'
        /\ deployedContracts \subseteq deployedContracts']_vars

\* a repeated deploy request for a conversion that already has its record
C8_Witness ==
  /\ returned.kind = "deploy"
  /\ returned.deploymentResult.success
  /\ returned.failedStage = "persist"
  /\ \E d \in deployedContracts : d.conversionId = returned.conversionId
  /\ \E e \in extractedData : e.conversionId = returned.conversionId

\* C9: a step of the status lookup changes no conversion record and no child
\* record.
C9_StatusLookupReadOnly ==
  [][\A s \in Slots :
       Status(s) =>
         /\ conversions' = conversions
         /\ extractedData' = extractedData
         /\ deployedContracts' = deployedContracts]_vars

C9_Witness ==
  /\ returned.kind = "status"
  /\ returned.response = 200
  /\ \E c \in conversions : c.id = returned.conversionId /\ c.status = "DEPLOYING"

\* C10: the router runs only the Ethereum strategy for a spelling of "ethereum",
\* only the Polygon strategy for a spelling of "polygon", and for every other
\* name fails with a reason containing the name, running no strategy and
\* substituting no network.
C10_RouterMapsByName ==
  routerCall.called =>
    LET name == routerCall.blockchain
        result == routerCall.result
    IN IF name \in {ethereum, ETHEREUM, Ethereum}
         THEN result.strategies = {"ethereum"}
              /\ (result.success => result.network = ETHEREUM)
       ELSE IF name \in {polygon, POLYGON, PoLyGoN}
         THEN result.strategies = {"polygon"}
              /\ (result.success => result.network = POLYGON)
       ELSE /\ ~result.success
            /\ Includes(result.error, name)
            /\ result.strategies = {}
            /\ ~result.submitted
            /\ result.network = <<>>

C10_Witness ==
  /\ routerCall.called
  /\ routerCall.blockchain = SOLANA
  /\ routerCall.solidityCode = ValidCode
  /\ ~routerCall.result.success
  /\ Includes(routerCall.result.error, SOLANA)

\* C11: every direct call of extractContractData returns without raising, and
\* the terms it returns have a non-empty type and a non-empty list of parties.
C11_ExtractionAlwaysValid ==
  call.fn = "extractContractData" =>
    /\ ~call.result.raised
    /\ call.result.value.type # ""
    /\ Len(call.result.value.parties) > 0

\* position of the quote that closes a Solidity string literal whose content
\* starts at position i: a backslash escapes the next character, a line break
\* cannot occur inside a literal; 0 when the literal is not closed
RECURSIVE LiteralEnd(_, _)
LiteralEnd(text, i) ==
  IF i > Len(text) \/ Ch(text, i) = "\n" THEN 0
  ELSE IF Ch(text, i) = "\"" THEN i
  ELSE IF Ch(text, i) = "\\"
    THEN (IF i + 1 > Len(text) \/ Ch(text, i + 1) = "\n" THEN 0
          ELSE LiteralEnd(text, i + 2))
  ELSE LiteralEnd(text, i + 1)

\* the declaration holds one literal, closed by its last quote before the ";"
LiteralIntact(decl) ==
  LET open == Min({i \in 1..Len(decl) : Ch(decl, i) = "\""})
  IN LiteralEnd(decl, open + 1) = Len(decl) - 1

\* C12: in the artifact generated for any contract terms, every string-literal
\* declaration holds exactly its own literal: no interpolated value ends or
\* breaks the literal it is placed in.
C12_InterpolatedValuesEscaped ==
  call.fn = "generateSolidityContract" =>
    \A i \in 1..Len(call.result) : LiteralIntact(call.result[i])

\* C13: for a non-empty contract type, sanitizeContractName returns an
\* identifier of 1 to 100 characters that starts with a letter or underscore,
\* holds only letters, digits and underscores, and has no two underscores in a row.
C13_SanitizedNameIsIdentifier ==
  (call.fn = "sanitizeContractName" /\ call.name # "") =>
    LET id == call.result
    IN /\ Len(id) >= 1
       /\ Len(id) <= 100
       /\ InClass(Head(id), "letter") \/ Head(id) = "_"
       /\ \A i \in 1..Len(id) :
            InClass(Ch(id, i), "letter") \/ InClass(Ch(id, i), "digit") \/ Ch(id, i) = "_"
       /\ \A i \in 1..(Len(id) - 1) : ~(Ch(id, i) = "_" /\ Ch(id, i + 1) = "_")

\* a name of 101 characters that starts with a digit: prefixed, then cut
C13_Witness ==
  /\ call.fn = "sanitizeContractName"
  /\ Len(call.name) = 101
  /\ Head(call.name) = "9"
  /\ Len(call.result) = 100
  /\ SubSeq(call.result, 1, 3) = "_9y"

\* C14: a successful outcome of compileSolidityContract carries a non-empty
\* bytecode, an ABI, and the name of a contract of the compiler's output.
C14_CompiledOutcomeComplete ==
  (call.fn = "compileSolidityContract" /\ call.result.success) =>
    /\ call.result.bytecode # ""
    /\ call.result.abi
    /\ \E i \in 1..Len(call.solc.names) : call.solc.names[i] = call.result.contractName

\* the text has a character other than whitespace
NotBlank(code) == \E i \in 1..Len(code) : code[i] # " "

\* C20: compileSolidityContract invokes the compiler exactly when the text is
\* not blank and holds the pragma marker and the contract keyword; otherwise it
\* fails, without invoking the compiler, with the reason of the first failing
\* check in the order empty, pragma, declaration.
C20_CompilerGatedByChecks ==
  call.fn = "compileSolidityContract" =>
    LET code == call.solidityCode
        hasPragma == \E i \in 1..Len(code) : code[i] = "pragma solidity"
        hasContract == \E i \in 1..Len(code) : code[i] = "contract "
        result == call.result
    IN /\ result.compilerInvoked <=> (NotBlank(code) /\ hasPragma /\ hasContract)
       /\ ~NotBlank(code) =>
            ~result.success /\ result.error = "Empty Solidity code provided"
       /\ (NotBlank(code) /\ ~hasPragma) =>
            ~result.success /\ result.error = "Missing pragma solidity declaration"
       /\ (NotBlank(code) /\ hasPragma /\ ~hasContract) =>
            ~result.success /\ result.error = "Missing contract declaration"

\* a blank text that holds neither marker is rejected as empty
C20_Witness ==
  /\ call.fn = "compileSolidityContract"
  /\ call.solidityCode = <<" ", " ">>
  /\ call.solc = SolcClean
  /\ ~call.result.compilerInvoked
  /\ call.result.error = "Empty Solidity code provided"

\* C15: a successful outcome of a deployment strategy carries a non-empty
\* contract address and a non-empty transaction hash.
C15_DeployedOutcomeIdentified ==
  (call.fn = "deployToPolygonMumbai" /\ call.result.success) =>
    /\ call.result.contractAddress # ""
    /\ call.result.transactionHash # ""

StageOrder == <<"Compile", "Connect", "BuildFactory", "Submit", "Confirm">>

Reached(result, stage) == \E i \in 1..Len(result.stages) : result.stages[i] = stage

\* C19: the stages of one deployment attempt are an initial part of Compile,
\* Connect, BuildFactory, Submit, Confirm; after a compile failure, a missing
\* endpoint or a missing credential nothing is submitted; a stage that fails or
\* throws is the last one and gives a failed outcome with a reason; success is
\* returned only after Confirm.
C19_AttemptStagesGated ==
  call.fn = "deployToPolygonMumbai" =>
    LET result == call.result
        n == Len(result.stages)
        compiled == compileSolidityContract(call.solidityCode, call.solc).success
    IN /\ n >= 1 /\ n <= 5
       /\ result.stages = SubSeq(StageOrder, 1, n)
       /\ ~compiled => n = 1
       /\ (~compiled \/ ~call.cfg.polygonRpc \/ ~call.cfg.privateKey) =>
            /\ ~result.success
            /\ ~result.submitted
            /\ ~Reached(result, "BuildFactory")
            /\ ~Reached(result, "Submit")
       /\ (call.net = "connectThrows" /\ n >= 2) => ~result.success /\ n = 2
       /\ (call.net = "factoryThrows" /\ n >= 3) => ~result.success /\ n = 3
       /\ (call.net = "submitThrows" /\ n >= 4) =>
            ~result.success /\ n = 4 /\ ~result.submitted
       /\ (call.net = "waitThrows" /\ n >= 5) => ~result.success
       /\ ~result.success => result.error # <<>>
       /\ result.success => n = 5 /\ result.submitted

\* compiled and connected, but the signing key is missing
C19_Witness ==
  /\ call.fn = "deployToPolygonMumbai"
  /\ call.solidityCode = ValidCode
  /\ call.solc = SolcClean
  /\ call.cfg.polygonRpc
  /\ ~call.cfg.privateKey
  /\ call.net = "ok"
  /\ call.result.stages = <<"Compile", "Connect">>
  /\ ~call.result.submitted

\* two handler instances serve requests that target the same existing conversion
SameConversion(s, t) ==
  /\ s # t
  /\ req[s].kind \in {"deploy", "generate"}
  /\ req[t].kind \in {"deploy", "generate"}
  /\ req[s].conversionId \in ConversionIds
  /\ req[s].conversionId = req[t].conversionId

\* C16: of two concurrent requests for the same conversion at most one has
\* submitted a deployment, and while one of them is between its two writes
\* (child record created, conversion not yet updated) no step of the other
\* changes a record.
C16_SameConversionSerialized ==
  /\ [](\A s, t \in Slots :
          SameConversion(s, t) =>
            ~(req[s].deploymentResult.submitted /\ req[t].deploymentResult.submitted))
  /\ [][\A s, t \in Slots :
          (/\ SameConversion(s, t)
           /\ req[s].kind = "deploy"
           /\ req[s].pc = "conversion.update"
           /\ req'[s] = req[s]) => db' = db]_vars

StageRank(stage) ==
  CASE stage = "parse" -> 0
    [] stage = "extract" -> 1
    [] stage = "generate" -> 2
    [] stage = "compile" -> 3
    [] stage = "deploy" -> 4
    [] stage = "persist" -> 5

\* C17: when a pipeline run returns, its stages have run in the order Extract,
\* Generate, Compile, Deploy, Persist, and a Deploy stage was preceded by a
\* Compile stage of the same run that succeeded.
C17_DeployOnlyAfterCompile ==
  returned.kind \in {"upload", "extract", "deploy"} =>
    LET st == returned.stages
    IN /\ \A i, j \in 1..Len(st) : i < j => StageRank(st[i]) < StageRank(st[j])
       /\ \A j \in 1..Len(st) :
            st[j] = "deploy" =>
              /\ \E i \in 1..(j - 1) : st[i] = "compile"
              /\ returned.validation.success

\* the (status, processingStep) pair of the stage an upload run is about to start
StagePair(pc) ==
  CASE pc = "parsePdfFile" -> <<"PARSING", "PARSE_PDF">>
    [] pc = "extractContractData" -> <<"EXTRACTING", "EXTRACT_DATA">>
    [] pc = "generateSolidityContract" -> <<"GENERATING", "GENERATE_CONTRACT">>
    [] pc = "deployContract" -> <<"DEPLOYING", "DEPLOY">>

\* C18: whenever an upload run is about to start one of the stages parse,
\* extract, generate, deploy, its conversion record exists and holds that
\* stage's (status, processingStep) pair.
C18_StatusAdvancedBeforeStage ==
  \A s \in Slots :
    (/\ req[s].kind \in UploadKinds
     /\ req[s].pc \in {"parsePdfFile", "extractContractData",
                       "generateSolidityContract", "deployContract"}) =>
      \E c \in conversions :
        /\ c.id = req[s].conversion
        /\ c.status = StagePair(req[s].pc)[1]
        /\ c.processingStep = StagePair(req[s].pc)[2]

\* the messages of the diagnostics of one severity, in the compiler's order
MessagesOf(diagnostics, sev) ==
  LET picked == SelectSeq(diagnostics, LAMBDA d : d.severity = sev)
  IN [i \in 1..Len(picked) |-> picked[i].message]

\* C21: once the compiler has run, compileSolidityContract fails with the
\* compiler's diagnostics exactly when a diagnostic has severity error: the
\* reason is then the error messages joined in order and the warnings are the
\* warning messages; without an error the outcome carries no diagnostics, and
\* it is a success whenever the output holds a contract with ABI and bytecode.
C21_DiagnosticsPartitioned ==
  (call.fn = "compileSolidityContract" /\ call.result.compilerInvoked) =>
    LET errors == MessagesOf(call.solc.errors, "error")
        warnings == MessagesOf(call.solc.errors, "warning")
        result == call.result
    IN /\ errors # <<>> =>
            /\ ~result.success
            /\ result.error = "Compilation failed: " \o Join(errors, "; ")
            /\ result.warnings = warnings
       /\ errors = <<>> =>
            /\ result.warnings = <<>>
            /\ result.error \in {"", "Cannot read properties of undefined",
                                 "No contracts found in compilation output",
                                 "Missing ABI or bytecode in compilation output"}
            /\ (call.solc.hasContracts /\ call.solc.names # <<>>
                  /\ call.solc.abi /\ call.solc.evm) => result.success

\* two errors around a warning: the reason joins both errors in order
C21_Witness ==
  /\ call.fn = "compileSolidityContract"
  /\ call.result.compilerInvoked
  /\ ~call.result.success
  /\ call.result.error = "Compilation failed: ParserError; TypeError"
  /\ call.result.warnings = <<"Unused variable">>

\* the assisted attempt cannot be used: no key, a throwing call, no JSON object
\* in the reply, an object that does not parse, or one without type or parties
Unusable(apiKey, reply) ==
  \/ ~apiKey
  \/ reply.throws
  \/ JsonMatch(reply.content) = <<>>
  \/ ~JsonParses(JsonMatch(reply.content))
  \/ LET parsed == JsonParse(JsonMatch(reply.content))
     IN \/ "type" \notin parsed.has \/ parsed.type = ""
        \/ "parties" \notin parsed.has \/ parsed.parties = <<>>

\* C22: when the assisted attempt cannot be used, extractContractData returns
\* exactly what extractContractDataWithPatterns returns for the same text; it
\* issues no request without a key and at most one request otherwise.
C22_UnusableAttemptFallsBack ==
  call.fn = "extractContractData" =>
    /\ Unusable(call.apiKey, call.reply) =>
         call.result.value = extractContractDataWithPatterns(call.pdfText)
    /\ ~call.apiKey => call.result.requests = 0
    /\ call.result.requests <= 1

\* a reply that names a type but no parties, for a text of another type: the
\* result is the fallback's and takes nothing from the reply
C22_Witness ==
  /\ call.fn = "extractContractData"
  /\ call.apiKey
  /\ ~call.reply.throws
  /\ JsonParses(JsonMatch(call.reply.content))
  /\ JsonParse(JsonMatch(call.reply.content)).type = "NDA"
  /\ JsonParse(JsonMatch(call.reply.content)).parties = <<>>
  /\ call.result.requests = 1
  /\ call.result.value.type = "Service Agreement"
  /\ call.result.value.parties = <<"Alice", "Bob">>

\* C23: the summary extractContractData returns is its type, followed by
\* " between " and the comma-joined parties when there are parties, by the
\* payment segment when payment is present and by the duration segment when
\* duration is present, on the assisted path and on the fallback path alike.
C23_SummaryFromReturnedFields ==
  call.fn = "extractContractData" =>
    LET data == call.result.value
    IN data.summary =
         data.type
           \o (IF data.parties # <<>> THEN " between " \o Join(data.parties, ", ") ELSE "")
           \o (IF data.terms.payment # "" THEN " - Payment: " \o data.terms.payment ELSE "")
           \o (IF data.terms.duration # "" THEN " - Duration: " \o data.terms.duration
               ELSE "")

\* the text with runs of whitespace made one blank, without blanks at its ends
Normalized(pdfText) == TrimStr(CollapseWs(pdfText))

\* the text holds head, then characters of the class gap (at least least of
\* them), then tail, letters compared without case
HoldsPhrase(text, head, gap, least, tail) ==
  \E i \in 1..Len(text), j \in 1..Len(text) :
    /\ j >= i + Len(head) + least
    /\ j + Len(tail) - 1 <= Len(text)
    /\ \A k \in 1..Len(head) : LowerChar(Ch(text, i + k - 1)) = Ch(head, k)
    /\ \A k \in (i + Len(head))..(j - 1) : InClass(Ch(text, k), gap)
    /\ \A k \in 1..Len(tail) : LowerChar(Ch(text, j + k - 1)) = Ch(tail, k)

\* the labels of the rules of extractContractType that match, in list order
MatchingLabels(text) ==
  (IF HoldsPhrase(text, "service", "ws", 1, "agreement")
     THEN <<"Service Agreement">> ELSE <<>>)
    \o (IF HoldsPhrase(text, "purchase", "ws", 1, "agreement")
          THEN <<"Purchase Agreement">> ELSE <<>>)
    \o (IF HoldsPhrase(text, "employment", "ws", 1, "contract")
          THEN <<"Employment Contract">> ELSE <<>>)
    \o (IF HoldsPhrase(text, "lease", "ws", 1, "agreement")
          THEN <<"Lease Agreement">> ELSE <<>>)
    \o (IF HoldsPhrase(text, "non", "notLetter", 0, "disclosure") THEN <<"NDA">> ELSE <<>>)
    \o (IF HoldsPhrase(text, "loan", "ws", 1, "agreement")
          THEN <<"Loan Agreement">> ELSE <<>>)

\* C24: the type extractContractDataWithPatterns returns is the label of the
\* first rule, in list order, that matches the normalized text, and the
\* default label "Service Agreement" when no rule matches; it is never empty.
C24_TypeIsFirstMatchingRule ==
  call.fn = "extractContractDataWithPatterns" =>
    LET labels == MatchingLabels(Normalized(call.pdfText))
    IN /\ call.result.type # ""
       /\ call.result.type = IF labels = <<>> THEN "Service Agreement" ELSE labels[1]

\* a text where a later rule matches before an earlier one in the text: the
\* earlier rule of the list gives the type
C24_Witness ==
  /\ call.fn = "extractContractDataWithPatterns"
  /\ call.pdfText = "Loan agreement purchase\n agreement"
  /\ call.result.type = "Purchase Agreement"

\* C25: the parties extractContractDataWithPatterns returns are the trimmed,
\* non-empty capture groups of the party patterns that match, in pattern order
\* then group order, each name once at its first place; and for the text
\* "This Agreement is between Acme Corp and Globex Inc." they are
\* "Acme Corp" and "Globex Inc.".
C25_PartiesFromCaptureGroups ==
  call.fn = "extractContractDataWithPatterns" =>
    LET text == Normalized(call.pdfText)
        groups == BetweenGroups(text) \o PartyGroups(text, "first", "1st")
                    \o PartyGroups(text, "second", "2nd")
        kept == SelectSeq([i \in 1..Len(groups) |-> TrimStr(groups[i])],
                          LAMBDA p : p # "")
        parties == call.result.parties
        FirstPlace(name) == Min({i \in 1..Len(kept) : kept[i] = name})
    IN /\ \A i \in 1..Len(parties), j \in 1..Len(parties) :
            i # j => parties[i] # parties[j]
       /\ {parties[i] : i \in 1..Len(parties)} = {kept[i] : i \in 1..Len(kept)}
       /\ \A i \in 1..Len(parties), j \in 1..Len(parties) :
            i < j => FirstPlace(parties[i]) < FirstPlace(parties[j])
       /\ call.pdfText = "This Agreement is between Acme Corp and Globex Inc." =>
            parties = <<"Acme Corp", "Globex Inc.">>

\* C26: the obligations extractContractDataWithPatterns returns are at most
\* five, all distinct, each at least 10 and less than 200 characters long, and
\* they are the first five distinct matches with a trimmed length in that
\* window, in scan order: the matches of the modal-verb pattern before those of
\* the obligation pattern.
C26_ObligationsBounded ==
  call.fn = "extractContractDataWithPatterns" =>
    LET text == Normalized(call.pdfText)
        matches == ObligationMatches(text, 1, "modal") \o ObligationMatches(text, 1, "noun")
        qualifying == SelectSeq([i \in 1..Len(matches) |-> TrimStr(matches[i])],
                                LAMBDA o : Len(o) >= 10 /\ Len(o) < 200)
        Earlier(i) == {j \in 1..(i - 1) : qualifying[j] = qualifying[i]}
        distinct == SelectSeq([i \in 1..Len(qualifying) |-> <<i, qualifying[i]>>],
                              LAMBDA e : Earlier(e[1]) = {})
        obligations == call.result.terms.obligations
    IN /\ Len(obligations) <= 5
       /\ \A i \in 1..Len(obligations), j \in 1..Len(obligations) :
            i # j => obligations[i] # obligations[j]
       /\ \A i \in 1..Len(obligations) :
            Len(obligations[i]) >= 10 /\ Len(obligations[i]) < 200
       /\ Len(obligations) = Min({5, Len(distinct)})
       /\ \A i \in 1..Len(obligations) : obligations[i] = distinct[i][2]

\* C27: sanitizing the contract type "3 Party NDA!!" yields _3_Party_NDA: an
\* underscore is put before the leading digit, each run of characters that are
\* not letters or digits becomes one underscore, and the result does not end
\* with an underscore.
C27_FixtureHasNoTrailingUnderscore ==
  (call.fn = "sanitizeContractName" /\ call.name = "3 Party NDA!!") =>
    /\ call.result = "_3_Party_NDA"
    /\ Ch(call.result, Len(call.result)) # "_"

\* C28: a deploy request that is rejected for lack of a conversionId has
\* submitted no contract-creation transaction: the conversionId is looked at
\* before the Submit stage.
C28_ConversionIdCheckedBeforeSubmit ==
  (/\ returned.kind = "deploy"
   /\ returned.response = 400
   /\ returned.error = <<"conversionId is required to save deployment record">>) =>
    ~returned.deploymentResult.submitted

\* C29: when a deploy request returns after its deployment was submitted and
\* confirmed, a deployed-contract record holds the contract address and the
\* transaction hash of that deployment, whatever the conversionId of the
\* request.
C29_ConfirmedDeploymentRecorded ==
  (returned.kind = "deploy" /\ returned.deploymentResult.success) =>
    \E d \in deployedContracts :
      /\ d.contractAddress = returned.deploymentResult.contractAddress
      /\ d.transactionHash = returned.deploymentResult.transactionHash

\* the (status, processingStep) pairs that belong together
MatchingPairs ==
  {<<"UPLOADING", "UPLOAD">>, <<"PARSING", "PARSE_PDF">>,
   <<"EXTRACTING", "EXTRACT_DATA">>, <<"GENERATING", "GENERATE_CONTRACT">>,
   <<"DEPLOYING", "DEPLOY">>, <<"COMPLETED", "COMPLETED">>}

\* C30: every conversion record holds a matching (status, processingStep)
\* pair or has status FAILED, and no step changes the processingStep of a
\* record and leaves its status as it was, or the other way round, unless the
\* record becomes FAILED.
C30_StatusAndStepMatch ==
  /\ [](\A c \in conversions :
          c.status = "FAILED" \/ <<c.status, c.processingStep>> \in MatchingPairs)
  /\ [][\A c \in conversions : \A d \in conversions' :
          (c.id = d.id /\ d.status # "FAILED") =>
            ((c.status = d.status) <=> (c.processingStep = d.processingStep))]_vars
====
